---- MODULE Spec2Model ----
(***************************************************************************)
(* Conversation store, realtime gateway, HTTP chat routes, one-time        *)
(* password login, tokens, profiles and requirement statistics of the      *)
(* marketplace backend.                                                    *)
(*                                                                         *)
(* The backing store executes each single query (select, insert, update,  *)
(* delete) atomically; a handler is a chain of such queries separated by   *)
(* awaits, and handlers of different requests interleave at the awaits.    *)
(* A query that only re-reads data no operation ever changes (the          *)
(* existence and the participants of a conversation row, the created_at of *)
(* a message row) is folded into the step of the next query of the same    *)
(* handler: the result of the read is the same at both moments.            *)
(***************************************************************************)
EXTENDS Integers, Sequences, FiniteSets, TLC

\* ---------------------------------------------------------------- bounds
MaxMsgs == 2
MaxTime == 2
NProcs == 2
NReadProcs == 1
NSockets == 4

\* ------------------------------------------------------- program constants
MAX_BODY == 4000

\* --------------------------------------------------------------- universe
Buyers == {"b1", "b2"}
Manufacturers == {"m1"}

\* the (userId, role) pairs a verified token or socket handshake can carry
Identities ==
  {[userId |-> b, role |-> "buyer"] : b \in Buyers}
    \cup {[userId |-> m, role |-> "manufacturer"] : m \in Manufacturers}
    \cup {[userId |-> "admin_demo", role |-> "admin"]}

NoOne == [userId |-> "none", role |-> "none"]
UserIds == {i.userId : i \in Identities}

Procs == 1..NProcs
Sockets == 1..NSockets
Times == 1..MaxTime
NullTime == 0
NullId == 0
NullText == <<"NULL">>
NoReq == "none"
RequirementIds == {"r1"}
\* the requirement ids of the statistics runs
AllRequirements == {"r1", "r2", "r3"}
\* owner (buyer_id) of each requirement row
RequirementBuyer == [r \in AllRequirements |-> IF r = "r3" THEN "b2" ELSE "b1"]

MaxConvs == Cardinality(Buyers) * Cardinality(Manufacturers)
\* the conversation ids a request can name; not all of them need exist
ConvIds == 1..MaxConvs
MsgIds == 1..MaxMsgs

VARIABLES
  conversations,  \* table conversations: sequence of rows, id = index
  messages,       \* table messages: sequence of rows, id = index
  attachments,    \* ids of the messages that own rows of message_attachments
  requirements,   \* ids of the rows of table requirements
  now,            \* the clock read by NOW() and new Date()
  sockets,        \* socket -> identity of the open connection, NoOne if closed
  onlineCounts,   \* presence Map: userId -> connection count, for the keys set
  procs,          \* handler invocations suspended at an await
  emits,          \* events emitted by the most recent step
  resp,           \* response or outcome produced by the most recent step
  msgSummary,     \* summaryText of the insertMessage call of each message
  summaryFailed,  \* history: the messages whose summary update failed
  lastMark,       \* history: the latest markRead call not followed by an insert
  otp_sessions,   \* table otp_sessions: sequence of rows, id = index
  user_sessions,  \* table user_sessions: the rows, by token_hash
  manufacturer_profiles, \* table manufacturer_profiles: phone_number -> row
  buyer_profiles, \* table buyer_profiles: phone_number -> row
  responses,      \* table requirement_responses: the rows
  issued          \* history: the tokens signed with JWT_SECRET so far

vars == <<conversations, messages, attachments, requirements, now, sockets,
          onlineCounts, procs, emits, resp, msgSummary, summaryFailed, lastMark,
          otp_sessions, user_sessions, manufacturer_profiles, buyer_profiles,
          responses, issued>>

\* what the chat handlers never touch: sessions, profiles, quotes, tokens
accounts == <<otp_sessions, user_sessions, manufacturer_profiles, buyer_profiles,
              responses, issued>>

\* what the account handlers never touch
chat == <<conversations, messages, attachments, sockets, onlineCounts, emits,
          msgSummary, summaryFailed, lastMark>>

store == <<conversations, messages, attachments, requirements>>

\* ------------------------------------------------------------ small helpers
\* a response: the operation, its status, and what it carries: the id of the
\* row returned, the rows listed, and a count (the rows markRead reports, or
\* the number of store queries getOrCreateConversation ran)
\* a profile id; the id of the admin pseudo-profile is 'admin_' + name
ProfileId(kind, name) == [kind |-> kind, name |-> name]

\* the payload of a JWT: { userId, phoneNumber, role, iat }
Token(userId, phoneNumber, role, iat) ==
  [userId |-> userId, phoneNumber |-> phoneNumber, role |-> role, iat |-> iat]
NoToken == Token(ProfileId("none", "none"), "none", "none", NullTime)

\* the object getBuyerRequirementStatistics returns
Statistics(total, accepted, pending_review, in_negotiation) ==
  [total |-> total, accepted |-> accepted, pending_review |-> pending_review,
   in_negotiation |-> in_negotiation]

NoResp ==
  [op |-> "none", code |-> "none", id |-> NullId, count |-> 0, list |-> <<>>,
   token |-> NoToken, stats |-> Statistics(0, 0, 0, 0)]
Resp(op, code) == [NoResp EXCEPT !.op = op, !.code = code]

\* a handler invocation: where it is suspended, its locals, and (history)
\* whether a store query it has awaited so far returned an error
IdleProc ==
  [pc |-> "idle", op |-> "none", who |-> NoOne, sock |-> 0, conv |-> NullId,
   msg |-> NullId, hasAtt |-> FALSE, upTo |-> NullTime, upToMsg |-> NullId,
   list |-> <<>>, failed |-> FALSE,
   phone |-> "none", role |-> "none", code |-> 0, read |-> 0, day |-> 0,
   token |-> NoToken, ids |-> {}]

NoMark == [conv |-> NullId, reader |-> "none", upTo |-> NullTime]

Range(s) == {s[i] : i \in DOMAIN s}

\* the slot a new invocation is suspended in: the lowest idle one
FreeProc(p) ==
  /\ procs[p].pc = "idle"
  /\ \A q \in Procs : q < p => procs[q].pc # "idle"

\* NOW(): the clock never goes back and may or may not have advanced
ClockReads == {t \in Times : t = now \/ t = now + 1}

\* ------------------------------------------------------------ text handling
IsSpace(ch) == ch = " "

RECURSIVE TrimLeft(_)
TrimLeft(s) ==
  IF s # <<>> /\ IsSpace(Head(s)) THEN TrimLeft(Tail(s)) ELSE s

RECURSIVE TrimRight(_)
TrimRight(s) ==
  IF s # <<>> /\ IsSpace(s[Len(s)]) THEN TrimRight(SubSeq(s, 1, Len(s) - 1)) ELSE s

\* String.prototype.trim
Trim(s) == TrimRight(TrimLeft(s))

\* body.replace(/<[^>]*>/g, ''): a "<" and everything up to the next ">"
\* is dropped; a "<" with no later ">" stays
RECURSIVE StripTags(_)
StripTags(s) ==
  IF s = <<>> THEN <<>>
  ELSE IF Head(s) = "<" /\ (\E i \in 2..Len(s) : s[i] = ">")
  THEN LET close == CHOOSE i \in 2..Len(s) :
                       s[i] = ">" /\ \A j \in 2..(i - 1) : s[j] # ">"
       IN StripTags(SubSeq(s, close + 1, Len(s)))
  ELSE <<Head(s)>> \o StripTags(Tail(s))

\* String.prototype.slice(0, n)
Slice(s, n) == IF Len(s) > n THEN SubSeq(s, 1, n) ELSE s

\* the body test without the trim
HasBodyNoTrim(body) == body # NullText /\ Len(body) > 0

\* body && typeof body === 'string' && body.trim().length > 0
HasBody(body) == body # NullText /\ Len(Trim(body)) > 0

\* attachments && Array.isArray(attachments) && attachments.length > 0
HasAttachments(atts) == atts # NullText /\ Len(atts) > 0

\* the sanitized body both send handlers pass to insertMessage
Sanitize(body) == IF HasBody(body) THEN Slice(StripTags(body), MAX_BODY) ELSE <<>>

\* utils/messageSummary: the body when it has text, else a placeholder
\* naming the attachment, else the empty string
AttachmentPlaceholder == <<"#", "P", "h", "o", "t", "o">>
buildMessageSummary(body, atts) ==
  IF Len(Trim(body)) > 0 THEN body
  ELSE IF Len(atts) > 0 THEN AttachmentPlaceholder
  ELSE <<>>

\* summaryText ?? body
Coalesce(summaryText, body) == IF summaryText = NullText THEN body ELSE summaryText

\* an emitted event: name, target user groups, payload
Event(type, to, conv, msg, user, at, text) ==
  [type |-> type, to |-> to, sock |-> 0, conv |-> conv, msg |-> msg, user |-> user,
   at |-> at, text |-> text, online |-> FALSE, files |-> FALSE]

\* socket.emit('presence', { userId, online }): to the one socket
PresenceEvent(s, userId, online) ==
  [type |-> "presence", to |-> {}, sock |-> s, conv |-> NullId, msg |-> NullId,
   user |-> userId, at |-> NullTime, text |-> NullText, online |-> online,
   files |-> FALSE]

\* ------------------------------------------------------ ConversationRepository
\* select * from conversations where buyer_id = .. and manufacturer_id = ..
FindConversation(buyerId, manufacturerId) ==
  {c \in DOMAIN conversations :
      /\ conversations[c].buyer_id = buyerId
      /\ conversations[c].manufacturer_id = manufacturerId}

\* a participant test that compares the role and forgets the ids
IsParticipantByRoleOnly(who, convo) ==
  who.role = "buyer" \/ who.role = "manufacturer"

\* the participant test of every chat handler
IsParticipant(who, convo) ==
  \/ (who.role = "buyer" /\ convo.buyer_id = who.userId)
  \/ (who.role = "manufacturer" /\ convo.manufacturer_id = who.userId)

\* POST /conversations: authorisation, then the first select of
\* getOrCreateConversation
EnsureConversation(p, who, buyerId, manufacturerId) ==
  /\ FreeProc(p)
  /\ LET found == FindConversation(buyerId, manufacturerId)
     IN
     IF ~((who.role = "buyer" /\ who.userId = buyerId)
           \/ (who.role = "manufacturer" /\ who.userId = manufacturerId))
     THEN resp' = Resp("ensure", "403") /\ procs' = procs
     ELSE IF found # {}
     THEN /\ resp' = [Resp("ensure", "200") EXCEPT !.id = CHOOSE c \in found : TRUE,
                                                   !.count = 1,
                                                   !.list = <<buyerId, manufacturerId>>]
          /\ procs' = procs
     ELSE /\ resp' = NoResp
          /\ procs' = [procs EXCEPT ![p] =
                [IdleProc EXCEPT !.pc = "goc_insert", !.op = "ensure", !.who = who,
                                 !.list = <<buyerId, manufacturerId>>]]
  /\ emits' = {}
  /\ UNCHANGED <<store, now, sockets, onlineCounts, msgSummary, summaryFailed, lastMark>>
  /\ UNCHANGED accounts

\* a conversations table declared without the uniqueness constraint
UniqueViolationNever(buyerId, manufacturerId) == FALSE

\* CONSTRAINT uq_conversation_participants UNIQUE (buyer_id, manufacturer_id):
\* the insert of a second row for the pair fails with error 23505
UniqueViolation(buyerId, manufacturerId) ==
  FindConversation(buyerId, manufacturerId) # {}

\* the insert of getOrCreateConversation
GocInsert(p) ==
  /\ procs[p].pc = "goc_insert"
  /\ LET buyerId == procs[p].list[1]
         manufacturerId == procs[p].list[2]
     IN
     IF UniqueViolation(buyerId, manufacturerId)
     THEN /\ procs' = [procs EXCEPT ![p].pc = "goc_retry"]
          /\ resp' = NoResp
          /\ UNCHANGED <<conversations, now>>
     ELSE \E t \in ClockReads :
            /\ now' = t
            /\ conversations' = Append(conversations,
                  [buyer_id |-> buyerId, manufacturer_id |-> manufacturerId,
                   created_at |-> t, last_message_at |-> NullTime,
                   last_message_text |-> NullText])
            /\ procs' = [procs EXCEPT ![p] = IdleProc]
            /\ resp' = [Resp("ensure", "200") EXCEPT !.id = Len(conversations) + 1,
                                                     !.count = 2,
                                                     !.list = procs[p].list]
  /\ emits' = {}
  /\ UNCHANGED <<messages, attachments, requirements, sockets, onlineCounts,
                 msgSummary, summaryFailed, lastMark>>
  /\ UNCHANGED accounts

\* the re-read after the uniqueness conflict
GocRetry(p) ==
  /\ procs[p].pc = "goc_retry"
  /\ LET found == FindConversation(procs[p].list[1], procs[p].list[2])
     IN
     IF found = {}
     THEN resp' = [Resp("ensure", "400") EXCEPT !.count = 3, !.list = procs[p].list]
     ELSE resp' = [Resp("ensure", "200") EXCEPT !.id = CHOOSE c \in found : TRUE,
                                               !.count = 3,
                                               !.list = procs[p].list]
  /\ procs' = [procs EXCEPT ![p] = IdleProc]
  /\ emits' = {}
  /\ UNCHANGED <<store, now, sockets, onlineCounts, msgSummary, summaryFailed, lastMark>>
  /\ UNCHANGED accounts

\* insertMessage, first query: the insert into messages.  The row is rejected
\* when requirement_id references no row of requirements (foreign key).
InsertMessageRow(p, started, failCode, senderRole, senderId, body, summaryText, req, hasAtt) ==
  IF req # NoReq /\ req \notin requirements
  THEN /\ resp' = Resp(started.op, failCode)
       /\ UNCHANGED <<procs, messages, msgSummary, lastMark, now>>
  ELSE /\ Len(messages) < MaxMsgs
       /\ \E t \in ClockReads :
            /\ now' = t
            /\ messages' = Append(messages,
                 [conversation_id |-> started.conv, sender_role |-> senderRole,
                  sender_id |-> senderId, body |-> body, requirement_id |-> req,
                  created_at |-> t, is_read |-> FALSE])
            /\ msgSummary' = Append(msgSummary, summaryText)
            /\ lastMark' = IF lastMark.conv = started.conv THEN NoMark ELSE lastMark
            /\ procs' = [procs EXCEPT ![p] =
                 [started EXCEPT !.pc = "ins_summary", !.msg = Len(messages) + 1,
                                 !.hasAtt = hasAtt]]
            /\ resp' = NoResp

\* socket event message:send up to and including the insert of the message row
WsSend(p, s, conversationId, body, atts, req) ==
  /\ FreeProc(p)
  /\ sockets[s] # NoOne
  /\ LET who == sockets[s]
         started == [IdleProc EXCEPT !.op = "ws_send", !.who = who, !.sock = s,
                                     !.conv = conversationId]
         sanitized == Sanitize(body)
         summaryText == buildMessageSummary(sanitized,
                          IF HasAttachments(atts) THEN atts ELSE <<>>)
         stop(code) == /\ resp' = Resp("ws_send", code)
                       /\ UNCHANGED <<procs, messages, msgSummary, lastMark, now>>
     IN
     IF conversationId = NullId THEN stop("ignored")
     ELSE IF ~HasBody(body) /\ ~HasAttachments(atts) THEN stop("ignored")
     ELSE IF conversationId \notin DOMAIN conversations
     THEN stop("logged")   \* getConversation throws, the handler's catch logs
     ELSE IF ~IsParticipant(who, conversations[conversationId]) THEN stop("ignored")
     ELSE InsertMessageRow(p, started, "logged", who.role, who.userId, sanitized,
                           summaryText, req, HasAttachments(atts))
  /\ emits' = {}
  /\ UNCHANGED <<conversations, attachments, requirements, sockets, onlineCounts,
                 summaryFailed>>
  /\ UNCHANGED accounts

\* POST /conversations/:id/messages up to and including the insert of the row
HttpSend(p, who, conversationId, body, atts, req) ==
  /\ FreeProc(p)
  /\ conversationId # NullId
  /\ LET started == [IdleProc EXCEPT !.op = "http_send", !.who = who,
                                     !.conv = conversationId]
         cleanBody == Sanitize(body)
         summaryText == buildMessageSummary(cleanBody,
                          IF HasAttachments(atts) THEN atts ELSE <<>>)
         stop(code) == /\ resp' = Resp("http_send", code)
                       /\ UNCHANGED <<procs, messages, msgSummary, lastMark, now>>
     IN
     IF body # NullText /\ Len(body) > MAX_BODY THEN stop("400")
     ELSE IF conversationId \notin DOMAIN conversations THEN stop("400")
     ELSE IF ~IsParticipant(who, conversations[conversationId]) THEN stop("403")
     ELSE IF ~HasBody(body) /\ ~HasAttachments(atts) THEN stop("400")
     ELSE InsertMessageRow(p, started, "400", who.role, who.userId, cleanBody,
                           summaryText, req, HasAttachments(atts))
  /\ emits' = {}
  /\ UNCHANGED <<conversations, attachments, requirements, sockets, onlineCounts,
                 summaryFailed>>
  /\ UNCHANGED accounts

\* what follows insertMessage in the two send handlers
AfterInsertMessage(p, q) ==
  IF q.hasAtt
  THEN procs' = [procs EXCEPT ![p] = [q EXCEPT !.pc = "ins_attach"]] /\ resp' = NoResp
  ELSE IF q.op = "ws_send"
  THEN procs' = [procs EXCEPT ![p] = [q EXCEPT !.pc = "send_refresh"]] /\ resp' = NoResp
  ELSE /\ procs' = [procs EXCEPT ![p] = IdleProc]
       /\ resp' = [Resp("http_send", "201") EXCEPT !.id = q.msg]

\* a summary update that writes the raw body and ignores summaryText
SummaryUpdateBodyOnly(convo, m) ==
  [convo EXCEPT !.last_message_at = messages[m].created_at,
                !.last_message_text = messages[m].body]

\* a summary update that writes the text and leaves last_message_at alone
SummaryUpdateTextOnly(convo, m) ==
  [convo EXCEPT !.last_message_text = Coalesce(msgSummary[m], messages[m].body)]

\* the conversation row after the summary update of message m
SummaryUpdate(convo, m) ==
  [convo EXCEPT !.last_message_at = messages[m].created_at,
                !.last_message_text = Coalesce(msgSummary[m], messages[m].body)]

\* an insertMessage that throws when the summary update fails
InsUpdateSummaryThrows(p, ok) ==
  /\ procs[p].pc = "ins_summary"
  /\ IF ok
     THEN /\ conversations' =
               [conversations EXCEPT ![procs[p].conv] = SummaryUpdate(@, procs[p].msg)]
          /\ summaryFailed' = summaryFailed
          /\ AfterInsertMessage(p, procs[p])
     ELSE /\ conversations' = conversations
          /\ summaryFailed' = summaryFailed \cup {procs[p].msg}
          /\ procs' = [procs EXCEPT ![p] = IdleProc]
          /\ resp' = Resp(procs[p].op, IF procs[p].op = "ws_send" THEN "logged" ELSE "400")
  /\ emits' = {}
  /\ UNCHANGED <<messages, attachments, requirements, now, sockets, onlineCounts,
                 msgSummary, lastMark>>
  /\ UNCHANGED accounts

\* insertMessage, second query: the update of the conversation summary; a
\* failure of the update is logged and insertMessage returns the message
InsUpdateSummary(p, ok) ==
  /\ procs[p].pc = "ins_summary"
  /\ conversations' =
       IF ok
       THEN [conversations EXCEPT ![procs[p].conv] = SummaryUpdate(@, procs[p].msg)]
       ELSE conversations
  /\ summaryFailed' = IF ok THEN summaryFailed ELSE summaryFailed \cup {procs[p].msg}
  /\ AfterInsertMessage(p, [procs[p] EXCEPT !.failed = @ \/ ~ok])
  /\ emits' = {}
  /\ UNCHANGED <<messages, attachments, requirements, now, sockets, onlineCounts,
                 msgSummary, lastMark>>
  /\ UNCHANGED accounts

\* insertMessageAttachments for a non-empty array; a failure is thrown
InsAttachments(p, ok) ==
  /\ procs[p].pc = "ins_attach"
  /\ IF ok
     THEN /\ attachments' = attachments \cup {procs[p].msg}
          /\ AfterInsertMessage(p, [procs[p] EXCEPT !.hasAtt = FALSE])
     ELSE /\ attachments' = attachments
          /\ procs' = [procs EXCEPT ![p] = IdleProc]
          /\ resp' = [Resp(procs[p].op,
                             IF procs[p].op = "ws_send" THEN "logged" ELSE "400")
                          EXCEPT !.id = procs[p].msg]
  /\ emits' = {}
  /\ UNCHANGED <<conversations, messages, requirements, now, sockets, onlineCounts,
                 msgSummary, summaryFailed, lastMark>>
  /\ UNCHANGED accounts

\* message:send, the end: re-read the conversation, emit message:new (the
\* message with the attachment rows inserted for it, and the summary) to the
\* groups of both participants; a failure of the re-read is thrown and logged
WsSendEmit(p, ok) ==
  /\ procs[p].pc = "send_refresh"
  /\ LET refreshed == conversations[procs[p].conv]
     IN
     IF ok
     THEN /\ emits' = {[Event("message:new",
                               {refreshed.buyer_id, refreshed.manufacturer_id},
                               procs[p].conv, procs[p].msg, procs[p].who.userId,
                               refreshed.last_message_at, refreshed.last_message_text)
                          EXCEPT !.files = procs[p].msg \in attachments]}
          /\ resp' = [Resp("ws_send", "emitted") EXCEPT !.id = procs[p].msg]
     ELSE /\ emits' = {}
          /\ resp' = [Resp("ws_send", "logged") EXCEPT !.id = procs[p].msg]
  /\ procs' = [procs EXCEPT ![p] = IdleProc]
  /\ UNCHANGED <<store, now, sockets, onlineCounts, msgSummary, summaryFailed, lastMark>>
  /\ UNCHANGED accounts

\* markRead without .neq('sender_id', reader)
MarkReadRowsAnySender(conversationId, readerUserId, upTo) ==
  {m \in DOMAIN messages :
      /\ messages[m].conversation_id = conversationId
      /\ messages[m].created_at < upTo}

\* markRead: the rows matched by the update
\*   .eq('conversation_id', ..).lt('created_at', upTo).neq('sender_id', reader)
MarkReadRows(conversationId, readerUserId, upTo) ==
  {m \in DOMAIN messages :
      /\ messages[m].conversation_id = conversationId
      /\ messages[m].created_at < upTo
      /\ messages[m].sender_id # readerUserId}

\* a markRead that writes is_read of every row of the conversation the reader
\* did not send: true for the rows before upTo, false for the others
MarkReadUpdateExact(conversationId, readerUserId, upTo) ==
  [m \in DOMAIN messages |->
     IF /\ messages[m].conversation_id = conversationId
        /\ messages[m].sender_id # readerUserId
     THEN [messages[m] EXCEPT !.is_read = (messages[m].created_at < upTo)]
     ELSE messages[m]]

\* markRead: the table after update({ is_read: true }) of the matched rows
MarkReadUpdate(conversationId, readerUserId, upTo) ==
  [m \in DOMAIN messages |->
     IF m \in MarkReadRows(conversationId, readerUserId, upTo)
     THEN [messages[m] EXCEPT !.is_read = TRUE]
     ELSE messages[m]]

\* markRead: the returned count, data.length of .select('id')
MarkReadCount(conversationId, readerUserId, upTo) ==
  Cardinality(MarkReadRows(conversationId, readerUserId, upTo))

\* socket event message:read up to the resolution of the timestamp; the
\* lookup of upToMessageId may fail or find no row, and upTo then stays the
\* current time
WsRead(p, s, conversationId, upToMessageId, lookupOk) ==
  /\ FreeProc(p)
  /\ sockets[s] # NoOne
  /\ LET who == sockets[s]
         started == [IdleProc EXCEPT !.op = "ws_read", !.who = who, !.sock = s,
                                     !.conv = conversationId, !.upToMsg = upToMessageId]
         stop(code) == resp' = Resp("ws_read", code) /\ UNCHANGED <<procs, now>>
     IN
     IF conversationId = NullId THEN stop("ignored")
     ELSE IF conversationId \notin DOMAIN conversations THEN stop("logged")
     ELSE IF ~IsParticipant(who, conversations[conversationId]) THEN stop("ignored")
     ELSE \E t \in ClockReads :
            /\ now' = t
            /\ resp' = NoResp
            /\ procs' = [procs EXCEPT ![p] =
                 [started EXCEPT !.pc = "read_mark",
                    !.failed = (upToMessageId # NullId /\ ~lookupOk),
                    !.upTo = IF /\ upToMessageId # NullId
                                /\ lookupOk
                                /\ upToMessageId \in DOMAIN messages
                             THEN messages[upToMessageId].created_at
                             ELSE t]]
  /\ emits' = {}
  /\ UNCHANGED <<store, sockets, onlineCounts, msgSummary, summaryFailed, lastMark>>
  /\ UNCHANGED accounts

\* a message:read handler that emits the receipt before it awaits markRead
WsReadMarkEmitFirst(p, ok) ==
  /\ procs[p].pc = "read_mark"
  /\ LET c == procs[p].conv
         reader == procs[p].who.userId
         upTo == procs[p].upTo
     IN
     /\ emits' = {Event("message:read",
                     {conversations[c].buyer_id, conversations[c].manufacturer_id},
                     c, procs[p].upToMsg, reader, upTo, NullText)}
     /\ IF ok
        THEN /\ messages' = MarkReadUpdate(c, reader, upTo)
             /\ lastMark' = [conv |-> c, reader |-> reader, upTo |-> upTo]
             /\ resp' = [Resp("ws_read", "emitted") EXCEPT
                           !.count = MarkReadCount(c, reader, upTo)]
        ELSE /\ resp' = Resp("ws_read", "logged")
             /\ UNCHANGED <<messages, lastMark>>
  /\ procs' = [procs EXCEPT ![p] = IdleProc]
  /\ UNCHANGED <<conversations, attachments, requirements, now, sockets,
                 onlineCounts, msgSummary, summaryFailed>>
  /\ UNCHANGED accounts

\* message:read, the end: markRead, then message:read to both groups; a
\* failure of markRead is thrown and logged by the handler
WsReadMark(p, ok) ==
  /\ procs[p].pc = "read_mark"
  /\ LET c == procs[p].conv
         reader == procs[p].who.userId
         upTo == procs[p].upTo
     IN
     IF ok
     THEN /\ messages' = MarkReadUpdate(c, reader, upTo)
          /\ lastMark' = [conv |-> c, reader |-> reader, upTo |-> upTo]
          /\ emits' = {Event("message:read",
                          {conversations[c].buyer_id, conversations[c].manufacturer_id},
                          c, procs[p].upToMsg, reader, upTo, NullText)}
          /\ resp' = [Resp("ws_read", "emitted") EXCEPT
                        !.count = MarkReadCount(c, reader, upTo)]
     ELSE /\ resp' = Resp("ws_read", "logged")
          /\ emits' = {}
          /\ UNCHANGED <<messages, lastMark>>
  /\ procs' = [procs EXCEPT ![p] = IdleProc]
  /\ UNCHANGED <<conversations, attachments, requirements, now, sockets,
                 onlineCounts, msgSummary, summaryFailed>>
  /\ UNCHANGED accounts

\* POST /conversations/:id/read; bodyUpTo = NullTime stands for an absent upTo
HttpRead(who, conversationId, bodyUpTo) ==
  /\ conversationId # NullId
  /\ IF conversationId \notin DOMAIN conversations
     THEN resp' = Resp("http_read", "400") /\ UNCHANGED <<messages, lastMark, now>>
     ELSE IF ~IsParticipant(who, conversations[conversationId])
     THEN resp' = Resp("http_read", "403") /\ UNCHANGED <<messages, lastMark, now>>
     ELSE \E t \in ClockReads :
            LET upTo == IF bodyUpTo # NullTime THEN bodyUpTo ELSE t
            IN
            /\ now' = t
            /\ messages' = MarkReadUpdate(conversationId, who.userId, upTo)
            /\ lastMark' = [conv |-> conversationId, reader |-> who.userId, upTo |-> upTo]
            /\ resp' = [Resp("http_read", "200") EXCEPT
                          !.count = MarkReadCount(conversationId, who.userId, upTo)]
  /\ emits' = {}
  /\ UNCHANGED <<conversations, attachments, requirements, sockets, onlineCounts,
                 procs, msgSummary, summaryFailed>>
  /\ UNCHANGED accounts

\* ORDER BY last_message_at DESC NULLS LAST, created_at DESC; rows equal in
\* both keys are taken in id order
ConvBefore(a, b) ==
  LET x == conversations[a]
      y == conversations[b]
  IN IF x.last_message_at # y.last_message_at
     THEN IF x.last_message_at = NullTime THEN FALSE
          ELSE IF y.last_message_at = NullTime THEN TRUE
          ELSE x.last_message_at > y.last_message_at
     ELSE IF x.created_at # y.created_at THEN x.created_at > y.created_at
     ELSE a < b

RECURSIVE OrderConvs(_)
OrderConvs(S) ==
  IF S = {} THEN <<>>
  ELSE LET first == CHOOSE c \in S : \A d \in S \ {c} : ConvBefore(c, d)
       IN <<first>> \o OrderConvs(S \ {first})

\* .limit(limit).range(offset, offset + limit - 1)
Page(seq, limit, offset) ==
  SubSeq(seq, offset + 1, IF offset + limit < Len(seq) THEN offset + limit ELSE Len(seq))

\* listConversations, first query: the conversations selected for the role
ConversationsFor(userId, role) ==
  {c \in DOMAIN conversations :
      IF role = "buyer" THEN conversations[c].buyer_id = userId
      ELSE IF role = "manufacturer" THEN conversations[c].manufacturer_id = userId
      ELSE TRUE}

\* listConversations, second query: the unread rows of all listed conversations
UnreadMessages(conversationIds, userId) ==
  {m \in DOMAIN messages :
      /\ messages[m].conversation_id \in conversationIds
      /\ messages[m].is_read = FALSE
      /\ messages[m].sender_id # userId}

\* unreadCountsMap[conversation.id] || 0
UnreadCount(rows, conversationId) ==
  Cardinality({m \in rows : messages[m].conversation_id = conversationId})

DEFAULT_LIMIT == 20

\* one profile query per page for every conversation of it: not what
\* listConversations does
ProfileQueriesPerRow(page) == 2 * Len(page)

\* the profile queries of listConversations: one for all buyer ids of the
\* page if there is any, one for all manufacturer ids if there is any
ProfileQueries(page) ==
  LET buyerIds == {conversations[page[i]].buyer_id : i \in DOMAIN page}
      manufacturerIds == {conversations[page[i]].manufacturer_id : i \in DOMAIN page}
  IN (IF Cardinality(buyerIds) > 0 THEN 1 ELSE 0)
       + (IF Cardinality(manufacturerIds) > 0 THEN 1 ELSE 0)

\* GET /conversations up to the conversation query of listConversations; the
\* count of the answer is the number of store queries the call has issued
ListConversations(p, who, limit, offset) ==
  /\ FreeProc(p)
  /\ LET page == Page(OrderConvs(ConversationsFor(who.userId, who.role)), limit, offset)
     IN
     IF Len(page) = 0
     THEN resp' = [Resp("list_convs", "200") EXCEPT !.count = 1] /\ procs' = procs
     ELSE /\ resp' = NoResp
          /\ procs' = [procs EXCEPT ![p] =
                [IdleProc EXCEPT !.pc = "lc_unread", !.op = "list_convs", !.who = who,
                                 !.list = page]]
  /\ emits' = {}
  /\ UNCHANGED <<store, now, sockets, onlineCounts, msgSummary, summaryFailed, lastMark>>
  /\ UNCHANGED accounts

\* listConversations, the batch unread query, the profile queries (profiles
\* never change here, so they are read in the same step) and the enrichment;
\* an error of the unread query is logged and every unread_count stays 0
ListConversationsUnread(p, ok) ==
  /\ procs[p].pc = "lc_unread"
  /\ LET page == procs[p].list
         unread == IF ok THEN UnreadMessages(Range(page), procs[p].who.userId) ELSE {}
     IN
     resp' = [Resp("list_convs", "200") EXCEPT
                !.count = 2 + ProfileQueries(page),
                !.list = [i \in DOMAIN page |->
                            [id |-> page[i], unread_count |-> UnreadCount(unread, page[i])]]]
  /\ procs' = [procs EXCEPT ![p] = IdleProc]
  /\ emits' = {}
  /\ UNCHANGED <<store, now, sockets, onlineCounts, msgSummary, summaryFailed, lastMark>>
  /\ UNCHANGED accounts

\* ORDER BY created_at DESC, rows of equal created_at in id order
RECURSIVE OrderMsgsDesc(_)
OrderMsgsDesc(S) ==
  IF S = {} THEN <<>>
  ELSE LET first == CHOOSE m \in S : \A n \in S \ {m} :
                       \/ messages[m].created_at > messages[n].created_at
                       \/ (messages[m].created_at = messages[n].created_at /\ m > n)
       IN <<first>> \o OrderMsgsDesc(S \ {first})

\* created_at is a timestamptz: it counts microseconds, here in ticks of
\* half a millisecond
TicksPerMs == 2

\* new Date(created_at): the timestamp cut to whole milliseconds
DateOf(t) == t \div TicksPerMs

\* Array.prototype.sort((a, b) => new Date(a.created_at) - new Date(b.created_at)),
\* which is stable: rows of the same millisecond keep the order they came in
RECURSIVE SortAsc(_)
SortAsc(seq) ==
  IF seq = <<>> THEN <<>>
  ELSE LET key(k) == DateOf(messages[seq[k]].created_at)
           i == CHOOSE k \in DOMAIN seq : \A j \in DOMAIN seq :
                  key(k) < key(j) \/ (key(k) = key(j) /\ k <= j)
       IN <<seq[i]>> \o SortAsc(SubSeq(seq, 1, i - 1) \o SubSeq(seq, i + 1, Len(seq)))

\* listMessagesWithAttachments
listMessagesWithAttachments(conversationId, before, limit, requirementId) ==
  LET rows == {m \in DOMAIN messages :
                 /\ messages[m].conversation_id = conversationId
                 /\ (before # NullTime => messages[m].created_at < before)
                 /\ (requirementId # NoReq => messages[m].requirement_id = requirementId)}
  IN SortAsc(Page(OrderMsgsDesc(rows), limit, 0))

DEFAULT_MESSAGE_LIMIT == 50

\* GET /conversations/:id/messages
ListMessages(who, conversationId, before, limit, requirementId) ==
  /\ conversationId # NullId
  /\ resp' =
       IF conversationId \notin DOMAIN conversations THEN Resp("list_msgs", "400")
       ELSE IF ~IsParticipant(who, conversations[conversationId])
       THEN Resp("list_msgs", "403")
       ELSE [Resp("list_msgs", "200") EXCEPT
               !.list = listMessagesWithAttachments(conversationId, before, limit,
                                                    requirementId)]
  /\ emits' = {}
  /\ UNCHANGED <<store, now, sockets, onlineCounts, procs, msgSummary, summaryFailed, lastMark>>
  /\ UNCHANGED accounts

\* DELETE /api/requirements/:id; messages.requirement_id is declared
\* REFERENCES requirements(id) ON DELETE SET NULL
DeleteRequirement(who, r) ==
  /\ IF r \notin requirements
     THEN resp' = Resp("delete_req", "404") /\ UNCHANGED <<messages, requirements, responses>>
     ELSE IF who.role # "buyer" \/ RequirementBuyer[r] # who.userId
     THEN resp' = Resp("delete_req", "403") /\ UNCHANGED <<messages, requirements, responses>>
     ELSE /\ requirements' = requirements \ {r}
          /\ responses' = {x \in responses : x.requirement_id # r}
          /\ messages' = [m \in DOMAIN messages |->
                            IF messages[m].requirement_id = r
                            THEN [messages[m] EXCEPT !.requirement_id = NoReq]
                            ELSE messages[m]]
          /\ resp' = Resp("delete_req", "200")
  /\ emits' = {}
  /\ UNCHANGED <<conversations, attachments, now, sockets, onlineCounts, procs,
                 msgSummary, summaryFailed, lastMark>>
  /\ UNCHANGED <<otp_sessions, user_sessions, manufacturer_profiles, buyer_profiles,
                 issued>>

\* Map.prototype.get(key) || 0
MapGetOr0(map, key) == IF key \in DOMAIN map THEN map[key] ELSE 0

\* Map.prototype.set(key, value)
MapSet(map, key, value) ==
  [k \in DOMAIN map \cup {key} |-> IF k = key THEN value ELSE map[k]]

\* Map.prototype.delete(key)
MapDelete(map, key) == [k \in DOMAIN map \ {key} |-> map[k]]

\* io.on('connection'): join the user's group, count the connection, tell
\* the socket that its user is online
Connect(s, who) ==
  /\ sockets[s] = NoOne
  /\ sockets' = [sockets EXCEPT ![s] = who]
  /\ LET previousCount == MapGetOr0(onlineCounts, who.userId)
     IN onlineCounts' = MapSet(onlineCounts, who.userId, previousCount + 1)
  /\ emits' = {PresenceEvent(s, who.userId, TRUE)}
  /\ resp' = NoResp
  /\ UNCHANGED <<store, now, procs, msgSummary, summaryFailed, lastMark>>
  /\ UNCHANGED accounts

\* the disconnect test with the bound off by one
LastConnectionAtZero(current) == current <= 0

\* the disconnect test that holds for every open connection
LastConnectionAlways(current) == current >= 1

\* current <= 1: the closing connection is the last one counted for the user
LastConnection(current) == current <= 1

\* socket.on('disconnect'): the offline signal goes to the closing socket
Disconnect(s) ==
  /\ sockets[s] # NoOne
  /\ LET userId == sockets[s].userId
         current == MapGetOr0(onlineCounts, userId)
     IN
     IF LastConnection(current)
     THEN /\ onlineCounts' = MapDelete(onlineCounts, userId)
          /\ emits' = {PresenceEvent(s, userId, FALSE)}
     ELSE /\ onlineCounts' = MapSet(onlineCounts, userId, current - 1)
          /\ emits' = {}
  /\ sockets' = [sockets EXCEPT ![s] = NoOne]
  /\ resp' = NoResp
  /\ UNCHANGED <<store, now, procs, msgSummary, summaryFailed, lastMark>>
  /\ UNCHANGED accounts

\* ------------------------------------------------- best-effort notifications
\* the operations that start a detached notification task
NotifyRoutes == {"create_requirement", "create_response", "update_status", "push_design"}

\* req.user.role the route asks for
RouteRole(route) == IF route = "create_response" THEN "manufacturer" ELSE "buyer"

\* the status of the success answer
SuccessCode(route) ==
  IF route \in {"create_requirement", "create_response"} THEN "201" ELSE "200"

\* a profile row as the task uses it: the id and whether phone_number is set
Profile(id, phone) == [id |-> id, phone |-> phone]

\* the profiles with a phone_number, in order: the notification calls to make
WithPhone(list) == SelectSeq(list, LAMBDA r : r.phone)

\* a notification call is asynchronous: it settles after the caller has been
\* suspended, delivered (TRUE) or failed (FALSE)
NotifyOutcomes == BOOLEAN

\* a socket notification of the routes, to the group of one user
Notice(type, userId) ==
  Event(type, {userId}, NullId, NullId, userId, NullTime, NullText)

\* a detached task, suspended at pc with the calls still to make in list
Task(pc, route, who, list) ==
  [IdleProc EXCEPT !.pc = pc, !.op = route, !.who = who, !.list = list]

\* a route that awaits its notification task before it answers
NotifyRequestAwaitsTask(p, route, who, check, profile) ==
  /\ FreeProc(p)
  /\ route \in NotifyRoutes
  /\ resp' = IF who.role # RouteRole(route) THEN Resp(route, "403") ELSE NoResp
  /\ procs' = IF who.role # RouteRole(route) THEN procs
              ELSE [procs EXCEPT ![p] = Task("task_notify", route, who, <<profile>>)]
  /\ emits' = {}
  /\ UNCHANGED <<store, now, sockets, onlineCounts, msgSummary, summaryFailed, lastMark>>
  /\ UNCHANGED accounts

\* POST /requirements, POST /requirements/:id/responses,
\* PATCH /responses/:responseId/status, PATCH /ai-designs/:id/push: the
\* handler from the request to the answer.  check is what the validation and
\* the store calls of the handler come to; profile is the manufacturer
\* profile update_status has read.  On success the handler starts the
\* detached task, which runs up to its first await, and answers in the same
\* run.
NotifyRequest(p, route, who, check, profile) ==
  /\ FreeProc(p)
  /\ route \in NotifyRoutes
  /\ route = "create_requirement" => check # "missing"
  /\ LET stop(code) == resp' = Resp(route, code) /\ procs' = procs /\ emits' = {}
         start(pc, list) == procs' = [procs EXCEPT ![p] = Task(pc, route, who, list)]
     IN
     IF route = "push_design" /\ check = "invalid" THEN stop("400")
     ELSE IF who.role # RouteRole(route) THEN stop("403")
     ELSE IF check = "invalid" THEN stop("400")
     ELSE IF check = "missing" THEN stop("404")
     ELSE IF check = "store_error" THEN stop("500")
     ELSE /\ resp' = Resp(route, SuccessCode(route))
          /\ CASE route = "create_requirement" ->
                    start("task_list", <<>>) /\ emits' = {}
               [] route = "create_response" ->
                    /\ start("task_buyer", <<>>)
                    /\ emits' = {Notice("requirement:response:new", RequirementBuyer["r1"])}
               [] route = "update_status" ->
                    /\ IF profile.phone THEN start("task_notify", <<profile>>)
                       ELSE procs' = procs
                    /\ emits' = {Notice("requirement:response:status:updated", profile.id)}
               [] route = "push_design" ->
                    start("task_buyer", <<>>) /\ emits' = {}
  /\ UNCHANGED <<store, now, sockets, onlineCounts, msgSummary, summaryFailed, lastMark>>
  /\ UNCHANGED accounts

\* the task's findBuyerProfile answers; an error is thrown into the task's
\* catch, which logs it
TaskBuyer(p, ok, buyer) ==
  /\ procs[p].pc = "task_buyer"
  /\ LET route == procs[p].op
         end(code) == resp' = Resp(route, code) /\ procs' = [procs EXCEPT ![p] = IdleProc]
     IN
     IF ~ok THEN end("task_logged")
     ELSE IF route = "push_design"
     THEN resp' = NoResp /\ procs' = [procs EXCEPT ![p].pc = "task_list"]
     ELSE IF buyer.phone
     THEN resp' = NoResp
            /\ procs' = [procs EXCEPT ![p] = [@ EXCEPT !.pc = "task_notify",
                                                       !.list = <<buyer>>]]
     ELSE end("task_done")
  /\ emits' = {}
  /\ UNCHANGED <<store, now, sockets, onlineCounts, msgSummary, summaryFailed, lastMark>>
  /\ UNCHANGED accounts

\* the task's getAllManufacturers({ verified: true }) answers: a socket
\* notification to every manufacturer listed, then the first notification calls
TaskList(p, ok, list) ==
  /\ procs[p].pc = "task_list"
  /\ LET route == procs[p].op
         type == IF route = "push_design" THEN "ai-design:new" ELSE "requirement:new"
         end(code) == resp' = Resp(route, code) /\ procs' = [procs EXCEPT ![p] = IdleProc]
     IN
     IF ~ok THEN end("task_logged") /\ emits' = {}
     ELSE /\ emits' = {Notice(type, list[i].id) : i \in DOMAIN list}
          /\ IF WithPhone(list) = <<>> THEN end("task_done")
             ELSE resp' = NoResp
                    /\ procs' = [procs EXCEPT ![p] = [@ EXCEPT !.pc = "task_notify",
                                                               !.list = WithPhone(list)]]
  /\ UNCHANGED <<store, now, sockets, onlineCounts, msgSummary, summaryFailed, lastMark>>
  /\ UNCHANGED accounts

\* a notification call of the task settles.  A failed call is logged: by the
\* task's one catch, which ends the task (the calls left are not made), or,
\* in push_design, by the catch around the single call, and the task goes on.
TaskNotify(p, ok) ==
  /\ procs[p].pc = "task_notify"
  /\ LET route == procs[p].op
         rest == Tail(procs[p].list)
         ends == rest = <<>> \/ (~ok /\ route # "push_design")
     IN
     /\ resp' = IF ~ok THEN Resp(route, "task_logged")
                ELSE IF ends THEN Resp(route, "task_done")
                ELSE NoResp
     /\ procs' = IF ends THEN [procs EXCEPT ![p] = IdleProc]
                 ELSE [procs EXCEPT ![p].list = rest]
  /\ emits' = {}
  /\ UNCHANGED <<store, now, sockets, onlineCounts, msgSummary, summaryFailed, lastMark>>
  /\ UNCHANGED accounts

\* ------------------------------------------------------------- AuthService
\* Accounts are keyed by phone number (phone_number is UNIQUE in both profile
\* tables), so the id of a profile is its table and its phone number.
Phones == {"+1", "+2"}
Roles == {"buyer", "manufacturer", "admin"}
\* the codes generateOTP can draw and a caller can type
OtpCodes == 1..2
MaxOtps == 2
MaxAuthTime == 3
AuthTimes == 1..MaxAuthTime

\* Date.now() in the account handlers
AuthClockReads == {t \in AuthTimes : t = now \/ t = now + 1}

\* OTP_EXPIRY_MINUTES and JWT_EXPIRES_IN, in ticks of the clock
OtpLifetime == 1
JwtLifetime == 2
ADMIN_USERNAME == "admin72397"
ADMIN_PASSWORD == "72397admin"
MAX_ATTEMPTS == 3
MAX_DAILY_OTPS == 3

\* what a request carries after "Bearer ": a JWT, or any other string
Bearer(raw, payload) == [raw |-> raw, payload |-> payload]
Jwt(payload) == Bearer("jwt", payload)
DemoAdminBearer == Bearer("demo_admin_token", NoToken)

\* crypto.createHash('sha256').update(token).digest('hex')
Sha256(token) == <<"sha256", token>>

\* generateJWT: the signed payload, valid from iat for JWT_EXPIRES_IN
generateJWT(userId, phoneNumber, role, at) == Token(userId, phoneNumber, role, at)

\* verifyJWT: jwt.verify accepts a token that was signed with JWT_SECRET and
\* has not expired; nothing else is looked at
verifyJWT(bearer, at) ==
  /\ bearer.raw = "jwt"
  /\ bearer.payload \in issued
  /\ at < bearer.payload.iat + JwtLifetime

\* findOTPSession(phoneNumber): the latest session stored for the phone, 0 if
\* there is none
findOTPSession(phoneNumber) ==
  LET own == {i \in DOMAIN otp_sessions : otp_sessions[i].phone_number = phoneNumber}
  IN IF own = {} THEN NullId ELSE CHOOSE i \in own : \A j \in own : j <= i

\* the answer of a finished account handler
End(p, op, code) ==
  /\ resp' = Resp(op, code)
  /\ procs' = [procs EXCEPT ![p] = IdleProc]

\* the answer that hands out a token
EndWithToken(p, op, token) ==
  /\ resp' = [Resp(op, "200") EXCEPT !.token = token]
  /\ procs' = [procs EXCEPT ![p] = IdleProc]
  /\ issued' = issued \cup {token}

\* POST /send-otp, sendOTP: the daily count (at most 3 a day), the expiry of
\* the phone's earlier sessions, the new session row, then the SMS, which
\* can fail after the row is stored.  The queries of one call are taken as
\* one step; store errors of the account handlers are not drawn.
SendOtp(p, phoneNumber, code, sent) ==
  /\ FreeProc(p)
  /\ Len(otp_sessions) < MaxOtps
  /\ LET dailyCount == Cardinality({i \in DOMAIN otp_sessions :
                                      otp_sessions[i].phone_number = phoneNumber})
     IN
     IF dailyCount >= MAX_DAILY_OTPS
     THEN /\ End(p, "send_otp", "400")
          /\ UNCHANGED <<otp_sessions, now>>
     ELSE \E t \in AuthClockReads :
            /\ now' = t
            /\ otp_sessions' =
                 Append([i \in DOMAIN otp_sessions |->
                           IF /\ otp_sessions[i].phone_number = phoneNumber
                              /\ ~otp_sessions[i].is_verified
                              /\ otp_sessions[i].expires_at > t
                           THEN [otp_sessions[i] EXCEPT !.expires_at = t]
                           ELSE otp_sessions[i]],
                        [phone_number |-> phoneNumber, otp_code |-> code,
                         expires_at |-> t + OtpLifetime, is_verified |-> FALSE,
                         attempts |-> 0])
            /\ End(p, "send_otp", IF sent THEN "200" ELSE "400")
  /\ UNCHANGED <<chat, requirements, user_sessions, manufacturer_profiles,
                 buyer_profiles, responses, issued>>

\* storedOTP.attempts >= 3
TooManyAttempts(attempts) == attempts >= MAX_ATTEMPTS

\* POST /verify-otp, verifyOTP up to the first update: the session is read
\* and checked against the clock, the verified flag and the attempt limit
VerifyOtp(p, phoneNumber, otp, role) ==
  /\ FreeProc(p)
  /\ role \in Roles
  /\ \E t \in AuthClockReads :
       /\ now' = t
       /\ LET id == findOTPSession(phoneNumber)
          IN IF id = NullId THEN End(p, "verify_otp", "400")
             ELSE IF t > otp_sessions[id].expires_at THEN End(p, "verify_otp", "400")
             ELSE IF otp_sessions[id].is_verified THEN End(p, "verify_otp", "400")
             ELSE IF TooManyAttempts(otp_sessions[id].attempts)
             THEN End(p, "verify_otp", "400")
             ELSE /\ resp' = NoResp
                  /\ procs' = [procs EXCEPT ![p] =
                        [IdleProc EXCEPT !.pc = "otp_update", !.op = "verify_otp",
                           !.msg = id, !.read = otp_sessions[id].attempts,
                           !.phone = phoneNumber, !.code = otp, !.role = role]]
  /\ UNCHANGED <<chat, requirements, accounts>>

\* verifyOTP, the update of the session: a wrong code stores the attempts
\* that were read plus one and fails; the right code marks the session
\* verified.  For the admin role no profile is looked up and the token is
\* issued at once.
VerifyOtpUpdate(p) ==
  /\ procs[p].pc = "otp_update"
  /\ LET id == procs[p].msg
         me == procs[p]
     IN
     IF otp_sessions[id].otp_code # me.code
     THEN /\ otp_sessions' = [otp_sessions EXCEPT ![id].attempts = me.read + 1]
          /\ End(p, "verify_otp", "400")
          /\ UNCHANGED <<now, issued>>
     ELSE /\ otp_sessions' = [otp_sessions EXCEPT ![id].is_verified = TRUE]
          /\ IF me.role = "admin"
             THEN \E t \in AuthClockReads :
                    /\ now' = t
                    /\ EndWithToken(p, "verify_otp",
                         generateJWT(ProfileId("admin", me.phone), me.phone, "admin", t))
             ELSE /\ resp' = NoResp
                  /\ procs' = [procs EXCEPT ![p].pc = "otp_profile"]
                  /\ UNCHANGED <<now, issued>>
  /\ UNCHANGED <<chat, requirements, user_sessions, manufacturer_profiles,
                 buyer_profiles, responses>>

NewBuyerProfile ==
  [daily_design_generation_count |-> 0, last_design_generation_date |-> NullTime]

\* updateManufacturerProfileByPhone(phoneNumber, { is_verified: true })
LoginVerifies(profile) == [profile EXCEPT !.is_verified = TRUE]

\* verifyOTP, the profile: found by phone number (the read and the write
\* that follows it are one step here; a profile is never deleted), created
\* if there is none, and for an existing manufacturer set to verified; then
\* the token is signed
VerifyOtpProfile(p) ==
  /\ procs[p].pc = "otp_profile"
  /\ LET me == procs[p]
     IN /\ IF me.role = "buyer"
           THEN /\ buyer_profiles' =
                     IF me.phone \in DOMAIN buyer_profiles THEN buyer_profiles
                     ELSE [ph \in DOMAIN buyer_profiles \cup {me.phone} |->
                             IF ph = me.phone THEN NewBuyerProfile ELSE buyer_profiles[ph]]
                /\ UNCHANGED manufacturer_profiles
           ELSE /\ manufacturer_profiles' =
                     [ph \in DOMAIN manufacturer_profiles \cup {me.phone} |->
                        IF ph # me.phone THEN manufacturer_profiles[ph]
                        ELSE IF ph \in DOMAIN manufacturer_profiles
                        THEN LoginVerifies(manufacturer_profiles[ph])
                        ELSE [is_verified |-> TRUE]]
                /\ UNCHANGED buyer_profiles
        /\ \E t \in AuthClockReads :
             /\ now' = t
             /\ procs' = [procs EXCEPT ![p].pc = "otp_session",
                            ![p].token = generateJWT(ProfileId(me.role, me.phone),
                                                     me.phone, me.role, t)]
  /\ resp' = NoResp
  /\ UNCHANGED <<chat, requirements, otp_sessions, user_sessions, responses, issued>>

\* verifyOTP, storeUserSession and the answer with the token
VerifyOtpSession(p) ==
  /\ procs[p].pc = "otp_session"
  /\ user_sessions' = user_sessions \cup
       {[token_hash |-> Sha256(procs[p].token), is_active |-> TRUE]}
  /\ EndWithToken(p, "verify_otp", procs[p].token)
  /\ UNCHANGED <<chat, requirements, now, otp_sessions, manufacturer_profiles,
                 buyer_profiles, responses>>

\* an answer of a route that runs no store query
Answer(op, code) ==
  /\ resp' = Resp(op, code)
  /\ UNCHANGED procs

\* POST /admin-login
AdminLogin(username, password) ==
  /\ IF username # ADMIN_USERNAME \/ password # ADMIN_PASSWORD
     THEN Answer("admin_login", "401") /\ UNCHANGED <<now, issued>>
     ELSE \E t \in AuthClockReads :
            /\ now' = t
            /\ resp' = [Resp("admin_login", "200") EXCEPT !.token =
                 generateJWT(ProfileId("admin", ADMIN_USERNAME), ADMIN_USERNAME, "admin", t)]
            /\ issued' = issued \cup {resp'.token}
            /\ UNCHANGED procs
  /\ UNCHANGED <<chat, requirements, otp_sessions, user_sessions,
                 manufacturer_profiles, buyer_profiles, responses>>

\* GET /verify-token
VerifyToken(bearer) ==
  /\ \E t \in AuthClockReads :
       /\ now' = t
       /\ IF verifyJWT(bearer, t) THEN Answer("verify_token", "200")
          ELSE Answer("verify_token", "401")
  /\ UNCHANGED <<chat, requirements, accounts>>

\* POST /refresh-token
RefreshToken(bearer) ==
  /\ \E t \in AuthClockReads :
       /\ now' = t
       /\ IF verifyJWT(bearer, t)
          THEN /\ resp' = [Resp("refresh_token", "200") EXCEPT !.token =
                    generateJWT(bearer.payload.userId, bearer.payload.phoneNumber,
                                bearer.payload.role, t)]
               /\ issued' = issued \cup {resp'.token}
               /\ UNCHANGED procs
          ELSE Answer("refresh_token", "401") /\ UNCHANGED issued
  /\ UNCHANGED <<chat, requirements, otp_sessions, user_sessions,
                 manufacturer_profiles, buyer_profiles, responses>>

\* POST /logout: the token is hashed and its session rows are deactivated;
\* the token itself is not verified
Logout(bearer) ==
  /\ user_sessions' =
       {IF s.token_hash = Sha256(bearer.payload) THEN [s EXCEPT !.is_active = FALSE] ELSE s :
          s \in user_sessions}
  /\ Answer("logout", "200")
  /\ UNCHANGED <<chat, requirements, now, otp_sessions, manufacturer_profiles,
                 buyer_profiles, responses, issued>>

\* authenticateAdmin: one of the fixed ADMIN_TOKENS, or any valid JWT whose
\* role is admin
authenticateAdmin(bearer, at) ==
  \/ bearer.raw = "demo_admin_token"
  \/ verifyJWT(bearer, at) /\ bearer.payload.role = "admin"

\* PATCH /manufacturers/:manufacturerId/verified
PatchVerified(bearer, phoneNumber, verified) ==
  /\ \E t \in AuthClockReads :
       /\ now' = t
       /\ IF ~authenticateAdmin(bearer, t)
          THEN Answer("patch_verified", "403") /\ UNCHANGED manufacturer_profiles
          ELSE IF phoneNumber \notin DOMAIN manufacturer_profiles
          THEN Answer("patch_verified", "404") /\ UNCHANGED manufacturer_profiles
          ELSE /\ manufacturer_profiles' =
                    [manufacturer_profiles EXCEPT ![phoneNumber].is_verified = verified]
               /\ Answer("patch_verified", "200")
  /\ UNCHANGED <<chat, requirements, otp_sessions, user_sessions, buyer_profiles,
                 responses, issued>>

\* GET /requirements/admin/orders: guarded by authenticateAdmin, reads only
AdminOrders(bearer) ==
  /\ \E t \in AuthClockReads :
       /\ now' = t
       /\ IF authenticateAdmin(bearer, t) THEN Answer("admin_orders", "200")
          ELSE Answer("admin_orders", "403")
  /\ UNCHANGED <<chat, requirements, accounts>>

\* the fields of a request body that reach the update of the profile row:
\* is_verified is "absent" when the body does not name it
ApplyBody(profile, isVerified) ==
  IF isVerified = "absent" THEN profile
  ELSE [profile EXCEPT !.is_verified = (isVerified = "true")]

\* POST /manufacturer-onboarding: the profile of the token's phone and role
\* is created (verified) if there is none, then updated with the seven
\* onboarding fields, is_verified not among them
Onboarding(bearer) ==
  /\ \E t \in AuthClockReads :
       /\ now' = t
       /\ LET tk == bearer.payload
          IN IF ~verifyJWT(bearer, t)
             THEN Answer("onboarding", "401") /\ UNCHANGED manufacturer_profiles
             ELSE IF tk.role # "manufacturer"
             THEN Answer("onboarding", "400") /\ UNCHANGED manufacturer_profiles
             ELSE /\ manufacturer_profiles' =
                       IF tk.phoneNumber \in DOMAIN manufacturer_profiles
                       THEN manufacturer_profiles
                       ELSE [ph \in DOMAIN manufacturer_profiles \cup {tk.phoneNumber} |->
                               IF ph = tk.phoneNumber THEN [is_verified |-> TRUE]
                               ELSE manufacturer_profiles[ph]]
                  /\ Answer("onboarding", "200")
  /\ UNCHANGED <<chat, requirements, otp_sessions, user_sessions, buyer_profiles,
                 responses, issued>>

\* PUT /manufacturer-profile: updateManufacturerProfile(profile.id, req.body),
\* the whole body going into the update
PutManufacturerProfile(bearer, isVerified) ==
  /\ \E t \in AuthClockReads :
       /\ now' = t
       /\ LET tk == bearer.payload
          IN IF ~verifyJWT(bearer, t)
             THEN Answer("put_profile", "401") /\ UNCHANGED manufacturer_profiles
             ELSE IF tk.role = "admin"
             THEN Answer("put_profile", "400") /\ UNCHANGED manufacturer_profiles
             ELSE IF tk.role = "buyer"
             THEN Answer("put_profile", IF tk.phoneNumber \in DOMAIN buyer_profiles
                                        THEN "400" ELSE "404")
                  /\ UNCHANGED manufacturer_profiles
             ELSE IF tk.phoneNumber \notin DOMAIN manufacturer_profiles
             THEN Answer("put_profile", "404") /\ UNCHANGED manufacturer_profiles
             ELSE /\ manufacturer_profiles' =
                       [manufacturer_profiles EXCEPT ![tk.phoneNumber] = ApplyBody(@, isVerified)]
                  /\ Answer("put_profile", "200")
  /\ UNCHANGED <<chat, requirements, otp_sessions, user_sessions, buyer_profiles,
                 responses, issued>>

\* ------------------------------------------------ design generation count
DAILY_LIMIT == 5

\* new Date().toISOString().split('T')[0]: two ticks of the clock make a day
DayOf(t) == (t + 1) \div 2

\* the count of the row as of the given day: 0 unless the row's date is it
CountOn(row, day) ==
  IF row.last_design_generation_date = day THEN row.daily_design_generation_count ELSE 0

\* POST /buyer-profile/increment-design-generation up to the limit check:
\* the token, the role, the profile, and getTodayDesignGenerationCount
\* compared with the limit
IncrementDesign(p, bearer) ==
  /\ FreeProc(p)
  /\ \E t \in AuthClockReads :
       /\ now' = t
       /\ LET tk == bearer.payload
          IN IF ~verifyJWT(bearer, t) THEN End(p, "increment_design", "401")
             ELSE IF tk.role # "buyer" THEN End(p, "increment_design", "403")
             ELSE IF tk.phoneNumber \notin DOMAIN buyer_profiles
             THEN End(p, "increment_design", "404")
             ELSE IF CountOn(buyer_profiles[tk.phoneNumber], DayOf(t)) >= DAILY_LIMIT
             THEN End(p, "increment_design", "429")
             ELSE /\ resp' = NoResp
                  /\ procs' = [procs EXCEPT ![p] =
                        [IdleProc EXCEPT !.pc = "dg_read", !.op = "increment_design",
                                         !.phone = tk.phoneNumber, !.day = DayOf(t)]]
  /\ UNCHANGED <<chat, requirements, accounts>>

\* incrementDesignGenerationCount, the read of the current values
IncrementRead(p) ==
  /\ procs[p].pc = "dg_read"
  /\ procs' = [procs EXCEPT ![p].pc = "dg_write",
                             ![p].read = CountOn(buyer_profiles[procs[p].phone], procs[p].day)]
  /\ resp' = NoResp
  /\ UNCHANGED <<chat, requirements, now, accounts>>

\* incrementDesignGenerationCount, the update with the count that was read
\* plus one, and the answer
IncrementWrite(p) ==
  /\ procs[p].pc = "dg_write"
  /\ buyer_profiles' = [buyer_profiles EXCEPT ![procs[p].phone] =
       [daily_design_generation_count |-> procs[p].read + 1,
        last_design_generation_date |-> procs[p].day]]
  /\ resp' = [Resp("increment_design", "200") EXCEPT !.count = procs[p].read + 1]
  /\ procs' = [procs EXCEPT ![p] = IdleProc]
  /\ UNCHANGED <<chat, requirements, now, otp_sessions, user_sessions,
                 manufacturer_profiles, responses, issued>>

\* -------------------------------------------------- requirement statistics
Quoters == {"m1", "m2"}
ResponseStatuses == {"submitted", "accepted", "negotiating"}
Response(r, m, status) == [requirement_id |-> r, manufacturer_id |-> m, status |-> status]

\* createRequirement: the insert POST /requirements awaits before it answers
InsertRequirement(r) ==
  /\ r \in AllRequirements \ requirements
  /\ requirements' = requirements \cup {r}
  /\ resp' = Resp("create_requirement", "201")
  /\ emits' = {}
  /\ UNCHANGED <<conversations, messages, attachments, now, sockets, onlineCounts,
                 procs, msgSummary, summaryFailed, lastMark, accounts>>

\* the class of one requirement, from the statuses of its responses
ClassOf(responseStatuses) ==
  IF responseStatuses = {} THEN "pending_review"
  ELSE IF "accepted" \in responseStatuses THEN "accepted"
  ELSE IF "negotiating" \in responseStatuses THEN "in_negotiation"
  ELSE "pending_review"

\* GET /requirements/buyer/statistics, getBuyerRequirementStatistics: the
\* exact count of the buyer's requirements
StatsTotal(p, who) ==
  /\ FreeProc(p)
  /\ who.role = "buyer"
  /\ procs' = [procs EXCEPT ![p] =
       [IdleProc EXCEPT !.pc = "st_ids", !.op = "statistics", !.who = who,
          !.read = Cardinality({r \in requirements : RequirementBuyer[r] = who.userId})]]
  /\ resp' = NoResp
  /\ emits' = {}
  /\ UNCHANGED <<store, now, sockets, onlineCounts, msgSummary, summaryFailed, lastMark,
                 accounts>>

\* getBuyerRequirementStatistics, the ids of the buyer's requirements; with
\* none of them the answer is all zeros
StatsIds(p) ==
  /\ procs[p].pc = "st_ids"
  /\ LET requirementIds == {r \in requirements : RequirementBuyer[r] = procs[p].who.userId}
     IN IF requirementIds = {}
        THEN /\ resp' = Resp("statistics", "200")
             /\ procs' = [procs EXCEPT ![p] = IdleProc]
        ELSE /\ resp' = NoResp
             /\ procs' = [procs EXCEPT ![p].pc = "st_responses", ![p].ids = requirementIds]
  /\ emits' = {}
  /\ UNCHANGED <<store, now, sockets, onlineCounts, msgSummary, summaryFailed, lastMark,
                 accounts>>

\* getBuyerRequirementStatistics, the responses of these requirements and
\* the counting
StatsResponses(p) ==
  /\ procs[p].pc = "st_responses"
  /\ LET requirementIds == procs[p].ids
         rows == {x \in responses : x.requirement_id \in requirementIds}
         statuses(r) == {x.status : x \in {y \in rows : y.requirement_id = r}}
         count(class) == Cardinality({r \in requirementIds : ClassOf(statuses(r)) = class})
     IN resp' = [Resp("statistics", "200") EXCEPT !.stats =
                   Statistics(procs[p].read, count("accepted"), count("pending_review"),
                              count("in_negotiation"))]
  /\ procs' = [procs EXCEPT ![p] = IdleProc]
  /\ emits' = {}
  /\ UNCHANGED <<store, now, sockets, onlineCounts, msgSummary, summaryFailed, lastMark,
                 accounts>>

\* ----------------------------------------------------------- specifications
\* no session, no profile, no quote, no token yet
NoAccounts ==
  /\ otp_sessions = <<>>
  /\ user_sessions = {}
  /\ manufacturer_profiles = [ph \in {} |-> 0]
  /\ buyer_profiles = [ph \in {} |-> 0]
  /\ responses = {}
  /\ issued = {}

\* the process and the store right after start-up
Init ==
  /\ conversations = <<>>
  /\ messages = <<>>
  /\ attachments = {}
  /\ requirements = RequirementIds
  /\ now = 1
  /\ sockets = [s \in Sockets |-> NoOne]
  /\ onlineCounts = [u \in {} |-> 0]
  /\ procs = [p \in Procs |-> IdleProc]
  /\ emits = {}
  /\ resp = NoResp
  /\ msgSummary = <<>>
  /\ summaryFailed = {}
  /\ lastMark = NoMark
  /\ NoAccounts

\* conversation creation under concurrent POST /conversations
NextConv ==
  \/ \E p \in Procs, who \in Identities, b \in Buyers, m \in Manufacturers :
        EnsureConversation(p, who, b, m)
  \/ \E p \in Procs : GocInsert(p)
  \/ \E p \in Procs : GocRetry(p)

SpecConv == Init /\ [][NextConv]_vars

\* the identity of the connection held by each socket once all are connected
SocketIdentities ==
  <<[userId |-> "b1", role |-> "buyer"], [userId |-> "m1", role |-> "manufacturer"],
    [userId |-> "b2", role |-> "buyer"], [userId |-> "admin_demo", role |-> "admin"]>>
IdentityOf(s) == SocketIdentities[((s - 1) % Len(SocketIdentities)) + 1]

\* a conversation row as getOrCreateConversation inserts it
NewConversation(buyerId, manufacturerId) ==
  [buyer_id |-> buyerId, manufacturer_id |-> manufacturerId, created_at |-> 1,
   last_message_at |-> NullTime, last_message_text |-> NullText]

\* the state once the conversations convs have been opened and every socket
\* has connected
InitChat(convs) ==
  /\ conversations = convs
  /\ messages = <<>>
  /\ attachments = {}
  /\ requirements = RequirementIds
  /\ now = 1
  /\ sockets = [s \in Sockets |-> IdentityOf(s)]
  /\ onlineCounts = [u \in {IdentityOf(s).userId : s \in Sockets} |->
                       Cardinality({s \in Sockets : IdentityOf(s).userId = u})]
  /\ procs = [p \in Procs |-> IdleProc]
  /\ emits = {}
  /\ resp = NoResp
  /\ msgSummary = <<>>
  /\ summaryFailed = {}
  /\ lastMark = NoMark
  /\ NoAccounts

OneConversation == <<NewConversation("b1", "m1")>>
TwoConversations == <<NewConversation("b1", "m1"), NewConversation("b2", "m1")>>

\* the (body, attachments) pairs of the send requests
SendPayloads ==
  {<<NullText, NullText>>, <<(<<" ">>), (<<>>)>>, <<(<<"a">>), NullText>>,
   <<(<<"a">>), (<<"image">>)>>, <<NullText, (<<"image">>)>>,
   <<(<<"<", "b", ">">>), NullText>>}

\* sending: both send paths, concurrent, with every kind of payload
NextSend ==
  \/ \E p \in Procs, s \in Sockets, c \in ConvIds \cup {NullId}, pl \in SendPayloads :
        WsSend(p, s, c, pl[1], pl[2], NoReq)
  \/ \E p \in Procs, who \in Identities, c \in ConvIds, pl \in SendPayloads :
        HttpSend(p, who, c, pl[1], pl[2], NoReq)
  \/ \E p \in Procs, ok \in BOOLEAN : InsUpdateSummary(p, ok)
  \/ \E p \in Procs, ok \in BOOLEAN : InsAttachments(p, ok)
  \/ \E p \in Procs, ok \in BOOLEAN : WsSendEmit(p, ok)

SpecSend == InitChat(OneConversation) /\ [][NextSend]_vars

ReadProcs == 1..NReadProcs

\* reading: text messages, read receipts over both paths, history, and the
\* deletion of a requirement messages refer to
NextRead ==
  \/ \E p \in ReadProcs, s \in Sockets, r \in RequirementIds \cup {NoReq} :
        WsSend(p, s, 1, <<"a">>, NullText, r)
  \/ \E p \in ReadProcs, who \in Identities, r \in RequirementIds \cup {NoReq} :
        HttpSend(p, who, 1, <<"a">>, NullText, r)
  \/ \E p \in ReadProcs, ok \in BOOLEAN : InsUpdateSummary(p, ok)
  \/ \E p \in ReadProcs : WsSendEmit(p, TRUE)
  \/ \E p \in ReadProcs, s \in Sockets, m \in MsgIds \cup {NullId}, lookupOk \in BOOLEAN :
        WsRead(p, s, 1, m, lookupOk)
  \/ \E p \in ReadProcs, ok \in BOOLEAN : WsReadMark(p, ok)
  \/ \E who \in Identities, t \in 0..(MaxTime + 1) : HttpRead(who, 1, t)
  \/ \E who \in Identities : ListMessages(who, 1, NullTime, DEFAULT_MESSAGE_LIMIT, NoReq)
  \/ \E who \in Identities, r \in RequirementIds : DeleteRequirement(who, r)

SpecRead == InitChat(OneConversation) /\ [][NextRead]_vars

\* listing: the conversation list of every caller while messages arrive and
\* are read in two conversations
NextList ==
  \/ \E p \in Procs, who \in Identities, c \in ConvIds :
        HttpSend(p, who, c, <<"a">>, NullText, NoReq)
  \/ \E p \in Procs : InsUpdateSummary(p, TRUE)
  \/ \E who \in Identities, c \in ConvIds : HttpRead(who, c, MaxTime + 1)
  \/ \E p \in Procs, who \in Identities, limit \in {1, DEFAULT_LIMIT} :
        ListConversations(p, who, limit, 0)
  \/ \E p \in Procs, ok \in BOOLEAN : ListConversationsUnread(p, ok)

SpecList == InitChat(TwoConversations) /\ [][NextList]_vars

\* delivery: messages sent over the socket, with and without files, every
\* store query after the insert free to fail.  Every query a suspended
\* handler awaits is answered in the end, with rows or with an error.
DeliverPayloads == {<<(<<"a">>), NullText>>, <<(<<"a">>), (<<"image">>)>>}

NextDeliver ==
  \/ \E p \in Procs, s \in Sockets, pl \in DeliverPayloads :
        WsSend(p, s, 1, pl[1], pl[2], NoReq)
  \/ \E p \in Procs, ok \in BOOLEAN : InsUpdateSummary(p, ok)
  \/ \E p \in Procs, ok \in BOOLEAN : InsAttachments(p, ok)
  \/ \E p \in Procs, ok \in BOOLEAN : WsSendEmit(p, ok)

QueriesAnswered ==
  \A p \in Procs :
    /\ WF_vars(\E ok \in BOOLEAN : InsUpdateSummary(p, ok))
    /\ WF_vars(\E ok \in BOOLEAN : InsAttachments(p, ok))
    /\ WF_vars(\E ok \in BOOLEAN : WsSendEmit(p, ok))

SpecDeliver == InitChat(OneConversation) /\ [][NextDeliver]_vars /\ QueriesAnswered

\* failures: socket events of two connections at a time, messages with a
\* file, every store query after the participant check free to fail
NextFail ==
  \/ \E p \in Procs, s \in Sockets : WsSend(p, s, 1, <<"a">>, <<"image">>, NoReq)
  \/ \E p \in Procs, ok \in BOOLEAN : InsUpdateSummary(p, ok)
  \/ \E p \in Procs, ok \in BOOLEAN : InsAttachments(p, ok)
  \/ \E p \in Procs, ok \in BOOLEAN : WsSendEmit(p, ok)
  \/ \E p \in Procs, s \in Sockets, m \in MsgIds \cup {NullId}, lookupOk \in BOOLEAN :
        WsRead(p, s, 1, m, lookupOk)
  \/ \E p \in Procs, ok \in BOOLEAN : WsReadMark(p, ok)

SpecFail == InitChat(OneConversation) /\ [][NextFail]_vars

\* what the validation and the store calls of a notifying route come to
RequestChecks == {"ok", "invalid", "missing", "store_error"}

\* the verified manufacturers getAllManufacturers can return
ManufacturerLists ==
  {<<>>, <<Profile("m1", TRUE)>>, <<Profile("m1", TRUE), Profile("m2", TRUE)>>,
   <<Profile("m1", FALSE), Profile("m2", TRUE)>>}

\* notifications: the four notifying routes, two requests at a time, every
\* query and every notification call of the tasks free to fail
NextNotify ==
  \/ \E p \in Procs, route \in NotifyRoutes, who \in Identities,
        check \in RequestChecks, phone \in BOOLEAN :
        NotifyRequest(p, route, who, check, Profile("m1", phone))
  \/ \E p \in Procs, ok \in BOOLEAN, phone \in BOOLEAN :
        TaskBuyer(p, ok, Profile("b1", phone))
  \/ \E p \in Procs, ok \in BOOLEAN, list \in ManufacturerLists : TaskList(p, ok, list)
  \/ \E p \in Procs, ok \in NotifyOutcomes : TaskNotify(p, ok)

SpecNotify == Init /\ [][NextNotify]_vars

\* the timestamps of the message tables the history is read from
MaxHistoryTime == 3
MaxHistory == 3

\* a stored text message of conversation c, sent by its buyer at time t
HistoryRow(c, t, r) ==
  [conversation_id |-> c, sender_role |-> "buyer",
   sender_id |-> TwoConversations[c].buyer_id, body |-> <<"a">>,
   requirement_id |-> r, created_at |-> t, is_read |-> FALSE]

\* the message tables a run of sends leaves: ids follow the insertion order,
\* so created_at never decreases along the ids
HistoryTables ==
  UNION {{tbl \in [1..n -> {HistoryRow(c, t, r) : c \in 1..2, t \in 1..MaxHistoryTime,
                                                  r \in RequirementIds \cup {NoReq}}] :
            \A i \in 1..(n - 1) : tbl[i].created_at <= tbl[i + 1].created_at}
         : n \in 0..MaxHistory}

InitHistory ==
  /\ conversations = TwoConversations
  /\ messages \in HistoryTables
  /\ attachments = {}
  /\ requirements = RequirementIds
  /\ now = MaxTime
  /\ sockets = [s \in Sockets |-> IdentityOf(s)]
  /\ onlineCounts = [u \in {IdentityOf(s).userId : s \in Sockets} |->
                       Cardinality({s \in Sockets : IdentityOf(s).userId = u})]
  /\ procs = [p \in Procs |-> IdleProc]
  /\ emits = {}
  /\ resp = NoResp
  /\ msgSummary = [m \in DOMAIN messages |-> NullText]
  /\ summaryFailed = {}
  /\ lastMark = NoMark
  /\ NoAccounts

\* the limits a history request is answered with
HistoryLimits == {1, 2, DEFAULT_MESSAGE_LIMIT}

\* history: GET /conversations/:id/messages over every stored table
NextHistory ==
  \E who \in Identities, c \in 1..2, before \in 0..(MaxHistoryTime + 1),
     limit \in HistoryLimits, r \in RequirementIds \cup {NoReq} :
     ListMessages(who, c, before, limit, r)

SpecHistory == InitHistory /\ [][NextHistory]_vars

\* presence: connections of every user open and close in any order
NextPresence ==
  \/ \E s \in Sockets, who \in Identities : Connect(s, who)
  \/ \E s \in Sockets : Disconnect(s)

SpecPresence == Init /\ [][NextPresence]_vars

\* what a client can put after "Bearer ": a token it was handed, a token
\* nobody signed, or the fixed demo token
Tokens ==
  {Token(ProfileId(role, ph), ph, role, t) : role \in Roles, ph \in Phones, t \in AuthTimes}
    \cup {Token(ProfileId("admin", ADMIN_USERNAME), ADMIN_USERNAME, "admin", t) : t \in AuthTimes}
Bearers == {Jwt(tk) : tk \in Tokens} \cup {DemoAdminBearer}
BearersOf(names) == {b \in Bearers : b = DemoAdminBearer \/ b.payload.phoneNumber \in names}

\* one-time passwords: sessions requested and verified concurrently, with
\* right and wrong codes
NextOtp ==
  \/ \E p \in Procs, ph \in Phones, sent \in BOOLEAN : SendOtp(p, ph, 1, sent)
  \/ \E p \in Procs, ph \in Phones, code \in OtpCodes : VerifyOtp(p, ph, code, "buyer")
  \/ \E p \in Procs : VerifyOtpUpdate(p)
  \/ \E p \in Procs : VerifyOtpProfile(p)
  \/ \E p \in Procs : VerifyOtpSession(p)

SpecOtp == Init /\ [][NextOtp]_vars

\* the admin guard: logins by one-time password in every role, the admin
\* login, and the two guarded routes called with every bearer
NextAdmin ==
  \/ \E p \in ReadProcs : SendOtp(p, "+1", 1, TRUE)
  \/ \E p \in ReadProcs, role \in Roles : VerifyOtp(p, "+1", 1, role)
  \/ \E p \in ReadProcs : VerifyOtpUpdate(p)
  \/ \E p \in ReadProcs : VerifyOtpProfile(p)
  \/ \E p \in ReadProcs : VerifyOtpSession(p)
  \/ \E password \in {ADMIN_PASSWORD, "guess"} : AdminLogin(ADMIN_USERNAME, password)
  \/ \E b \in BearersOf({"+1", ADMIN_USERNAME}) : PatchVerified(b, "+1", FALSE)
  \/ \E b \in BearersOf({"+1", ADMIN_USERNAME}) : AdminOrders(b)

SpecAdmin == Init /\ [][NextAdmin]_vars

\* the verified flag: manufacturers logging in, onboarding and editing their
\* profile while the admin sets and clears the flag
NextVerified ==
  \/ \E p \in ReadProcs, ph \in Phones : SendOtp(p, ph, 1, TRUE)
  \/ \E p \in ReadProcs, ph \in Phones : VerifyOtp(p, ph, 1, "manufacturer")
  \/ \E p \in ReadProcs : VerifyOtpUpdate(p)
  \/ \E p \in ReadProcs : VerifyOtpProfile(p)
  \/ \E p \in ReadProcs : VerifyOtpSession(p)
  \/ \E ph \in Phones, verified \in BOOLEAN : PatchVerified(DemoAdminBearer, ph, verified)
  \/ \E b \in Bearers : Onboarding(b)
  \/ \E b \in Bearers, isVerified \in {"absent", "true", "false"} :
        PutManufacturerProfile(b, isVerified)

SpecVerified == Init /\ [][NextVerified]_vars

\* tokens: logins, token checks, refreshes and logouts with every bearer
NextLogout ==
  \/ \E p \in ReadProcs : SendOtp(p, "+1", 1, TRUE)
  \/ \E p \in ReadProcs, role \in {"buyer", "manufacturer"} : VerifyOtp(p, "+1", 1, role)
  \/ \E p \in ReadProcs : VerifyOtpUpdate(p)
  \/ \E p \in ReadProcs : VerifyOtpProfile(p)
  \/ \E p \in ReadProcs : VerifyOtpSession(p)
  \/ \E b \in Bearers : VerifyToken(b)
  \/ \E b \in Bearers : RefreshToken(b)
  \/ \E b \in Bearers : Logout(b)

SpecLogout == Init /\ [][NextLogout]_vars

\* design generations: a buyer logs in, then asks for increments, two
\* requests at a time, over two days
NextDesign ==
  \/ \E p \in ReadProcs : SendOtp(p, "+1", 1, TRUE)
  \/ \E p \in ReadProcs : VerifyOtp(p, "+1", 1, "buyer")
  \/ \E p \in ReadProcs : VerifyOtpUpdate(p)
  \/ \E p \in ReadProcs : VerifyOtpProfile(p)
  \/ \E p \in ReadProcs : VerifyOtpSession(p)
  \/ \E p \in Procs, b \in BearersOf({"+1"}) : IncrementDesign(p, b)
  \/ \E p \in Procs : IncrementRead(p)
  \/ \E p \in Procs : IncrementWrite(p)

SpecDesign == Init /\ [][NextDesign]_vars

\* statistics: every table of requirements and responses, then the buyers
\* asking for their statistics while requirements are created and deleted
ResponseTables(reqs) ==
  {rows \in SUBSET {Response(r, m, st) : r \in reqs, m \in Quoters, st \in ResponseStatuses} :
     \A x, y \in rows :
       (x.requirement_id = y.requirement_id /\ x.manufacturer_id = y.manufacturer_id) => x = y}

InitStats ==
  /\ conversations = <<>>
  /\ messages = <<>>
  /\ attachments = {}
  /\ requirements \in SUBSET AllRequirements
  /\ now = 1
  /\ sockets = [s \in Sockets |-> NoOne]
  /\ onlineCounts = [u \in {} |-> 0]
  /\ procs = [p \in Procs |-> IdleProc]
  /\ emits = {}
  /\ resp = NoResp
  /\ msgSummary = <<>>
  /\ summaryFailed = {}
  /\ lastMark = NoMark
  /\ otp_sessions = <<>>
  /\ user_sessions = {}
  /\ manufacturer_profiles = [ph \in {} |-> 0]
  /\ buyer_profiles = [ph \in {} |-> 0]
  /\ responses \in ResponseTables(requirements)
  /\ issued = {}

NextStats ==
  \/ \E p \in ReadProcs, b \in Buyers : StatsTotal(p, [userId |-> b, role |-> "buyer"])
  \/ \E p \in ReadProcs : StatsIds(p)
  \/ \E p \in ReadProcs : StatsResponses(p)
  \/ \E r \in AllRequirements : InsertRequirement(r)
  \/ \E r \in AllRequirements :
        DeleteRequirement([userId |-> RequirementBuyer[r], role |-> "buyer"], r)

SpecStats == InitStats /\ [][NextStats]_vars

\* ------------------------------------------------------------------ claims
\* C1: however many getOrCreateConversation calls for a pair interleave, the
\* pair never has more than one conversation row, every call that answers
\* returns the id of that one row, and no call fails for having lost the
\* insert race (no answer of the route is an error once the caller is
\* authorised).
C1_OneRowPerPair ==
  /\ \A b \in Buyers, m \in Manufacturers : Cardinality(FindConversation(b, m)) <= 1
  /\ (resp.op = "ensure" /\ resp.code # "403") =>
        /\ resp.code = "200"
        /\ FindConversation(resp.list[1], resp.list[2]) = {resp.id}

\* C1 happens: a call lost the insert race, re-read and answered with the row
\* the winner inserted
C1_Witness ==
  /\ resp.op = "ensure" /\ resp.code = "200" /\ resp.count = 3
  /\ FindConversation(resp.list[1], resp.list[2]) = {resp.id}

\* the messages of a conversation, and those of them created last
MessagesOf(c) == {m \in DOMAIN messages : messages[m].conversation_id = c}
LatestOf(c) ==
  {m \in MessagesOf(c) :
      \A n \in MessagesOf(c) : messages[n].created_at <= messages[m].created_at}

\* the summary of the conversation is the one insertMessage writes for message m
SummaryIs(c, m) ==
  /\ conversations[c].last_message_at = messages[m].created_at
  /\ conversations[c].last_message_text = Coalesce(msgSummary[m], messages[m].body)

SummaryIsNull(c) ==
  /\ conversations[c].last_message_at = NullTime
  /\ conversations[c].last_message_text = NullText

\* C2: once every insertMessage call into a conversation has completed (and
\* none of their summary updates failed), the conversation's summary is the
\* created_at and the summary text of a message with the latest creation time.
C2_SummaryOfLatestWhenQuiet ==
  \A c \in DOMAIN conversations :
    (/\ MessagesOf(c) # {}
     /\ \A p \in Procs : procs[p].pc # "ins_summary"
     /\ summaryFailed \cap MessagesOf(c) = {})
    => \E m \in LatestOf(c) : SummaryIs(c, m)

BlankText(body) == body = NullText \/ \A i \in DOMAIN body : body[i] = " "
NoFiles(atts) == atts = NullText \/ atts = <<>>
SendIgnorable(s, c, body, atts) ==
  \/ c = NullId
  \/ BlankText(body) /\ NoFiles(atts)
  \/ c \notin DOMAIN conversations
  \/ /\ c \in DOMAIN conversations
     /\ ~(sockets[s].role = "buyer" /\ conversations[c].buyer_id = sockets[s].userId)
     /\ ~(sockets[s].role = "manufacturer"
            /\ conversations[c].manufacturer_id = sockets[s].userId)

\* what an ignored event amounts to: no table changes, no handler is left
\* suspended, nothing is emitted (so no error reaches the client) and every
\* connection stays open
NothingHappens ==
  /\ UNCHANGED <<store, sockets, onlineCounts, procs, msgSummary>>
  /\ emits' = {}
  /\ resp'.op = "ws_send" /\ resp'.code \in {"ignored", "logged"}

\* C10: in every reachable state, a message:send event without a
\* conversationId, with neither a non-blank body nor a non-empty attachments
\* array, for a conversation that does not exist, or from a caller who is not
\* a participant of it, can only be handled by a step that changes no table,
\* starts nothing, emits no event and leaves every connection open.
C10_IgnoredSendChangesNothing ==
  \A p \in Procs, s \in Sockets, c \in ConvIds \cup {NullId}, pl \in SendPayloads :
    SendIgnorable(s, c, pl[1], pl[2])
    => ~ENABLED (WsSend(p, s, c, pl[1], pl[2], NoReq) /\ ~NothingHappens)

\* C10 happens: an event was ignored while the conversation has a message and
\* another send is under way
C10_Witness ==
  /\ resp.op = "ws_send" /\ resp.code = "ignored"
  /\ messages # <<>>
  /\ \E p \in Procs : procs[p].pc # "idle"
  /\ emits = {}

\* C4: when markRead(conversation, reader, T) has run and no message has been
\* inserted into the conversation since, a further markRead of the same reader
\* with the same or an earlier timestamp reports 0 rows.
C4_RepeatedMarkReadReportsZero ==
  \A who \in Identities, t \in 1..(MaxTime + 1) :
    (lastMark.conv = 1 /\ lastMark.reader = who.userId /\ t <= lastMark.upTo)
    => ~ENABLED (HttpRead(who, 1, t) /\ resp'.code = "200" /\ resp'.count # 0)

\* a step of a markRead call: the route or the socket handler answering after
\* the update
MarkStep == resp'.op \in {"http_read", "ws_read"} /\ resp'.code \in {"200", "emitted"}

\* C5: a message's is_read changes only in a step of a markRead call on its
\* conversation whose reader is a participant of the conversation and is not
\* the sender of the message; in particular no markRead with reader A changes
\* a message sent by A.
C5_OnlyTheOtherParticipantMarks ==
  [][\A m \in DOMAIN messages :
        messages'[m].is_read # messages[m].is_read
        => LET c == conversations[messages[m].conversation_id]
           IN /\ MarkStep
              /\ lastMark'.conv = messages[m].conversation_id
              /\ lastMark'.reader # messages[m].sender_id
              /\ lastMark'.reader \in {c.buyer_id, c.manufacturer_id}]_vars

\* C5 happens: a markRead of one participant has marked the other's message and
\* has left the reader's own earlier message unread
C5_Witness ==
  /\ resp.op \in {"http_read", "ws_read"} /\ resp.code \in {"200", "emitted"}
  /\ \E m, n \in DOMAIN messages :
       /\ messages[m].conversation_id = lastMark.conv
       /\ messages[n].conversation_id = lastMark.conv
       /\ messages[m].sender_id # lastMark.reader /\ messages[m].is_read
       /\ messages[n].sender_id = lastMark.reader /\ ~messages[n].is_read
       /\ messages[n].created_at < lastMark.upTo

\* the fields of a message row other than is_read and requirement_id
FixedFields(row) ==
  <<row.conversation_id, row.sender_role, row.sender_id, row.body, row.created_at>>

\* C6 as stated: a message is inserted unread, no step sets is_read from true
\* back to false, and no step changes any other field of a stored message.
C6_OnlyIsReadChanges ==
  [][/\ Len(messages') >= Len(messages)
     /\ \A m \in DOMAIN messages' \ DOMAIN messages : ~messages'[m].is_read
     /\ \A m \in DOMAIN messages \cap DOMAIN messages' :
          /\ messages[m].is_read => messages'[m].is_read
          /\ FixedFields(messages'[m]) = FixedFields(messages[m])
          /\ messages'[m].requirement_id = messages[m].requirement_id]_vars

\* C6 as the code has it: a message is inserted unread, no step sets is_read
\* from true back to false, and no step changes any other field of a stored
\* message, except that requirement_id becomes null in the step that deletes
\* the requirement it refers to.
C6_IsReadMonotonicRowsKept ==
  [][/\ Len(messages') >= Len(messages)
     /\ \A m \in DOMAIN messages' \ DOMAIN messages : ~messages'[m].is_read
     /\ \A m \in DOMAIN messages \cap DOMAIN messages' :
          /\ messages[m].is_read => messages'[m].is_read
          /\ FixedFields(messages'[m]) = FixedFields(messages[m])
          /\ \/ messages'[m].requirement_id = messages[m].requirement_id
             \/ /\ messages'[m].requirement_id = NoReq
                /\ messages[m].requirement_id \in requirements
                /\ messages[m].requirement_id \notin requirements']_vars

\* C6 happens: a message sent about a requirement has been marked read, the
\* requirement has been deleted, and a later markRead with an earlier
\* timestamp has left the message read
C6_Witness ==
  /\ resp.op = "http_read" /\ resp.code = "200" /\ resp.count = 0
  /\ requirements = {}
  /\ \E m \in DOMAIN messages :
       /\ messages[m].is_read /\ messages[m].requirement_id = NoReq
       /\ messages[m].sender_id # lastMark.reader
       /\ lastMark.upTo <= messages[m].created_at

\* who is not a participant of conversation c, read off the stored row
Outsider(who, c) ==
  /\ ~(who.role = "buyer" /\ conversations[c].buyer_id = who.userId)
  /\ ~(who.role = "manufacturer" /\ conversations[c].manufacturer_id = who.userId)

\* C7: every stored message carries the role and the id of a participant of
\* its conversation, and on behalf of a caller who is not the conversation's
\* buyer (as a buyer) or its manufacturer (as a manufacturer) no send inserts a
\* message, no history request lists one and no read request marks one, over
\* the socket and over HTTP.
C7_ParticipantsOnly ==
  /\ \A m \in DOMAIN messages :
       LET c == conversations[messages[m].conversation_id]
       IN \/ messages[m].sender_role = "buyer" /\ messages[m].sender_id = c.buyer_id
          \/ /\ messages[m].sender_role = "manufacturer"
             /\ messages[m].sender_id = c.manufacturer_id
  /\ \A who \in Identities, r \in RequirementIds \cup {NoReq} :
       Outsider(who, 1) =>
         /\ \A p \in ReadProcs :
              ~ENABLED (HttpSend(p, who, 1, <<"a">>, NullText, r)
                          /\ (messages' # messages \/ procs' # procs
                                \/ resp'.code # "403"))
         /\ \A t \in 0..(MaxTime + 1) :
              ~ENABLED (HttpRead(who, 1, t)
                          /\ (messages' # messages \/ resp'.code # "403"))
         /\ ~ENABLED (ListMessages(who, 1, NullTime, DEFAULT_MESSAGE_LIMIT, NoReq)
                        /\ resp'.code # "403")
  /\ \A s \in Sockets, p \in ReadProcs :
       Outsider(sockets[s], 1) =>
         /\ \A r \in RequirementIds \cup {NoReq} :
              ~ENABLED (WsSend(p, s, 1, <<"a">>, NullText, r)
                          /\ (messages' # messages \/ procs' # procs))
         /\ \A m \in MsgIds \cup {NullId}, lookupOk \in BOOLEAN :
              ~ENABLED (WsRead(p, s, 1, m, lookupOk) /\ procs' # procs)

\* C7 happens: both participants have a message in the conversation and a
\* request of somebody else has just been refused
C7_Witness ==
  /\ resp.code = "403"
  /\ \E m, n \in DOMAIN messages :
       /\ messages[m].conversation_id = messages[n].conversation_id
       /\ messages[m].sender_role = "buyer" /\ messages[n].sender_role = "manufacturer"

\* C8: whoever the caller and whatever the role in the token, the answer of
\* GET /conversations lists only conversations whose buyer_id or
\* manufacturer_id is the caller's id.
C8_OnlyOwnConversationsListed ==
  \A p \in Procs, ok \in BOOLEAN :
    ~ENABLED (/\ ListConversationsUnread(p, ok)
              /\ \E i \in DOMAIN resp'.list :
                   LET c == conversations[resp'.list[i].id]
                   IN /\ c.buyer_id # procs[p].who.userId
                      /\ c.manufacturer_id # procs[p].who.userId)

\* C9: in the answer of listConversations every conversation's unread_count
\* is the number of the conversation's messages that are unread and were not
\* sent by the caller.
C9_UnreadCountIsExact ==
  \A p \in Procs, ok \in BOOLEAN :
    ~ENABLED (/\ ListConversationsUnread(p, ok)
              /\ \E i \in DOMAIN resp'.list :
                   resp'.list[i].unread_count #
                     Cardinality({m \in DOMAIN messages :
                                    /\ messages[m].conversation_id = resp'.list[i].id
                                    /\ ~messages[m].is_read
                                    /\ messages[m].sender_id # procs[p].who.userId}))
\* the message:new events of the latest step that carry message m to the
\* groups of both participants of its conversation
NewMessageEvents(m) ==
  {e \in emits :
     /\ e.type = "message:new" /\ e.msg = m
     /\ e.conv = messages[m].conversation_id
     /\ e.to = {conversations[e.conv].buyer_id, conversations[e.conv].manufacturer_id}}

\* C11: every message row a message:send event of a participant inserts is
\* followed by a message:new event that carries the message to the groups of
\* both participants.
C11_InsertedThenBroadcast ==
  \A m \in MsgIds :
    (\E p \in Procs : procs[p].op = "ws_send" /\ procs[p].msg = m)
      ~> (m \in DOMAIN messages /\ NewMessageEvents(m) # {})

\* the message:read event of a handler suspended before its markRead
ReadReceipt(q) ==
  Event("message:read",
        {conversations[q.conv].buyer_id, conversations[q.conv].manufacturer_id},
        q.conv, q.upToMsg, q.who.userId, q.upTo, NullText)

\* C12, per handler: a participant's message:read always reaches markRead;
\* when markRead succeeds the same step emits one message:read event, with the
\* conversation, the reader, upToMessageId and the timestamp, to the groups of
\* both participants, the reader's among them; when markRead fails nothing is
\* emitted and no row changes; the message:read of a socket that is no
\* participant changes nothing and emits nothing.
C12_ReceiptOfEachRead ==
  /\ \A p \in ReadProcs :
       procs[p].pc = "read_mark" =>
         /\ procs[p].who.userId \in ReadReceipt(procs[p]).to
         /\ ~ENABLED (WsReadMark(p, TRUE)
                        /\ ~(/\ emits' = {ReadReceipt(procs[p])}
                             /\ messages' = MarkReadUpdate(procs[p].conv,
                                               procs[p].who.userId, procs[p].upTo)))
         /\ ~ENABLED (WsReadMark(p, FALSE) /\ (emits' # {} \/ messages' # messages))
  /\ \A p \in ReadProcs, s \in Sockets, m \in MsgIds \cup {NullId}, lookupOk \in BOOLEAN :
       IF Outsider(sockets[s], 1)
       THEN ~ENABLED (WsRead(p, s, 1, m, lookupOk)
                        /\ (procs' # procs \/ emits' # {} \/ store' # store))
       ELSE ~ENABLED (WsRead(p, s, 1, m, lookupOk)
                        /\ ~(procs'[p].pc = "read_mark" /\ procs'[p].upToMsg = m))

\* C12, per step: a message:read event is emitted only by a step in which
\* the handler's markRead has succeeded, and it goes to both participants.
C12_ReceiptOnlyAfterMarkRead ==
  \A e \in emits' :
    e.type = "message:read" =>
      /\ resp'.op = "ws_read" /\ resp'.code = "emitted"
      /\ lastMark' = [conv |-> e.conv, reader |-> e.user, upTo |-> e.at]
      /\ e.to = {conversations[e.conv].buyer_id, conversations[e.conv].manufacturer_id}
      /\ e.user \in e.to
      /\ \A m \in MarkReadRows(e.conv, e.user, e.at) : messages'[m].is_read

\* C12: message:read goes to both participants' groups, the reader's own
\* included, and only once the markRead of that event has succeeded; the
\* message:read of a non-participant changes no state and emits nothing.
C12_ReadReceiptBroadcast ==
  []C12_ReceiptOfEachRead /\ [][C12_ReceiptOnlyAfterMarkRead]_vars

\* C12 happens: a read receipt has just been emitted after a markRead that
\* marked a message
C12_Witness ==
  /\ resp.op = "ws_read" /\ resp.code = "emitted" /\ resp.count > 0
  /\ \E e \in emits : e.type = "message:read" /\ e.user \in e.to /\ Cardinality(e.to) = 2

\* C13: a message:read whose upToMessageId names a message created at T0
\* marks exactly the messages of the conversation created before T0 that the
\* reader did not send; every other message, the named one included, keeps
\* its is_read.
C13_MarksExactlyBeforeReferenced ==
  [][\A e \in emits' :
       (e.type = "message:read" /\ e.msg \in DOMAIN messages) =>
         LET T0 == messages[e.msg].created_at
         IN \A m \in DOMAIN messages :
              messages'[m].is_read =
                \/ messages[m].is_read
                \/ /\ messages[m].conversation_id = e.conv
                   /\ messages[m].created_at < T0
                   /\ messages[m].sender_id # e.user]_vars

\* C18: the timestamp of a message:read that carries an upToMessageId, as
\* passed to markRead and as broadcast in `at`, is the creation time of the
\* message named; the current time is used only without an upToMessageId.
C18_TimestampOfReferencedMessage ==
  [][\A e \in emits' :
       (e.type = "message:read" /\ e.msg # NullId) =>
         /\ e.msg \in DOMAIN messages
         /\ e.at = messages[e.msg].created_at
         /\ lastMark'.upTo = e.at]_vars

\* the open connections of user u
OpenConnections(u) == {s \in Sockets : sockets[s] # NoOne /\ sockets[s].userId = u}

\* C14: the presence map has an entry exactly for the users with an open
\* connection, the entry is the number of the user's open connections, and
\* no entry is 0 or less.
C14_PresenceCountsConnections ==
  /\ DOMAIN onlineCounts = {u \in UserIds : OpenConnections(u) # {}}
  /\ \A u \in DOMAIN onlineCounts :
       onlineCounts[u] = Cardinality(OpenConnections(u)) /\ onlineCounts[u] >= 1

\* C14 happens: one user holds two connections while the last connection of
\* another user has just closed and its entry is gone
C14_Witness ==
  /\ \E u \in DOMAIN onlineCounts : onlineCounts[u] = 2
  /\ \E e \in emits :
       e.type = "presence" /\ ~e.online /\ e.user \notin DOMAIN onlineCounts

\* C15: a step that closes a connection emits the offline signal of its user
\* exactly when the user is left without an open connection; offline signals
\* come from no other step; every presence signal is sent to one socket, a
\* connection of the user it names, and to no group.
C15_OfflineOnlyOnLastDisconnect ==
  [][/\ \A s \in Sockets :
          (sockets[s] # NoOne /\ sockets'[s] = NoOne) =>
            LET u == sockets[s].userId
            IN (PresenceEvent(s, u, FALSE) \in emits')
                 <=> (\A s2 \in Sockets : sockets'[s2] = NoOne \/ sockets'[s2].userId # u)
     /\ \A e \in emits' :
          e.type = "presence" =>
            /\ e.to = {} /\ e.sock \in Sockets
            /\ IF e.online
               THEN sockets'[e.sock] # NoOne /\ sockets'[e.sock].userId = e.user
               ELSE /\ sockets[e.sock] # NoOne /\ sockets[e.sock].userId = e.user
                    /\ sockets'[e.sock] = NoOne]_vars

\* C15 happens: the offline signal of a user who has no connection left has
\* just gone to the closed socket, while another user still holds two
C15_Witness ==
  /\ \E e \in emits :
       /\ e.type = "presence" /\ ~e.online /\ sockets[e.sock] = NoOne
       /\ OpenConnections(e.user) = {}
  /\ \E u \in UserIds : Cardinality(OpenConnections(u)) >= 2

\* C16, per call: when the summary update of an insertMessage call fails,
\* the call still returns its message: the caller goes on to the attachments,
\* to the broadcast or to the 201 answer that carries the message, and the
\* table of messages is as it was.
C16_SummaryFailureReturnsMessage ==
  \A p \in Procs :
    procs[p].pc = "ins_summary" =>
      /\ procs[p].msg \in DOMAIN messages
      /\ ~ENABLED (/\ InsUpdateSummary(p, FALSE)
                   /\ ~(/\ messages' = messages
                        /\ \/ /\ procs'[p].pc \in {"ins_attach", "send_refresh"}
                              /\ procs'[p].msg = procs[p].msg
                           \/ /\ resp'.op = "http_send" /\ resp'.code = "201"
                              /\ resp'.id = procs[p].msg))

\* C16, per step: whatever fails or succeeds, every message row stays as it
\* was inserted.
C16_RowsStay ==
  /\ Len(messages') >= Len(messages)
  /\ \A m \in DOMAIN messages : messages'[m] = messages[m]

\* C16: a failed summary update does not make insertMessage throw, and no
\* failure after the insert (summary update, attachment insert, re-read)
\* removes the message row.
C16_InsertStands ==
  []C16_SummaryFailureReturnsMessage /\ [][C16_RowsStay]_vars

\* C16 happens: the summary update of a message failed, its row is in the
\* store, the summary is not that message's, and the route has answered 201
\* with the message
C16_Witness ==
  \E m \in summaryFailed :
    /\ m \in DOMAIN messages
    /\ resp.op = "http_send" /\ resp.code = "201" /\ resp.id = m
    /\ conversations[messages[m].conversation_id].last_message_at # messages[m].created_at
    /\ \A p \in Procs : procs[p].msg # m

\* a message of conversation c other than m whose summary update failed or
\* has not run yet
StaleBefore(c, m) ==
  \E m0 \in DOMAIN messages :
    /\ m0 # m /\ messages[m0].conversation_id = c
    /\ \/ m0 \in summaryFailed
       \/ \E q \in Procs : procs[q].pc = "ins_summary" /\ procs[q].msg = m0

\* C19: when the summary of a conversation is stale, an insertMessage call
\* whose insert and summary update both succeed leaves last_message_at and
\* last_message_text at the creation time and the summary of its message.
C19_NextInsertRepairsSummary ==
  \A p \in Procs :
    (procs[p].pc = "ins_summary" /\ StaleBefore(procs[p].conv, procs[p].msg)) =>
      LET c == procs[p].conv
          m == procs[p].msg
      IN ~ENABLED (/\ InsUpdateSummary(p, TRUE)
                   /\ ~(/\ conversations'[c].last_message_at = messages[m].created_at
                        /\ conversations'[c].last_message_text
                             = Coalesce(msgSummary[m], messages[m].body)))

\* C19 happens: the summary update of the first message failed, and the
\* summary is that of the second, whose call has completed
C19_Witness ==
  \E m0, m \in DOMAIN messages :
    /\ m0 < m /\ messages[m0].conversation_id = messages[m].conversation_id
    /\ m0 \in summaryFailed /\ m \notin summaryFailed
    /\ messages[m0].created_at < messages[m].created_at
    /\ SummaryIs(messages[m].conversation_id, m)
    /\ \A p \in Procs : procs[p].pc = "idle"

\* C20: when a store query of a message:send or message:read event has
\* failed, the handling of that event emits no message:new and no
\* message:read, neither in the step of the failure nor later; the sockets
\* stay open, the presence map stays as it is, and the handlers of the other
\* events are left where they were.
C20_FailureIsContained ==
  [][/\ resp'.code = "logged" =>
          emits' = {} /\ sockets' = sockets /\ onlineCounts' = onlineCounts
     /\ \A p \in Procs :
          (procs[p].pc # "idle" /\ procs'[p] # procs[p]
             /\ (procs[p].failed \/ procs'[p].failed)) =>
            /\ emits' = {}
            /\ sockets' = sockets /\ onlineCounts' = onlineCounts
            /\ \A r \in Procs \ {p} : procs'[r] = procs[r]]_vars

\* where a detached notification task can be suspended
TaskPcs == {"task_buyer", "task_list", "task_notify"}

\* C17, per request and per awaited call: a notifying route answers in the
\* handler's own run, with a status fixed by the request and the handler's
\* own store calls; when it answers with success and the task has a call to
\* await, the task is still suspended at that moment; a failed query or
\* notification call of a task is logged.
C17_AnswerBeforeTaskEnds ==
  /\ \A p \in Procs, route \in NotifyRoutes, who \in Identities,
        check \in RequestChecks, phone \in BOOLEAN :
       ~ENABLED (/\ NotifyRequest(p, route, who, check, Profile("m1", phone))
                 /\ ~(/\ resp'.op = route
                      /\ resp'.code \in {"400", "403", "404", "500", SuccessCode(route)}
                      /\ (resp'.code = SuccessCode(route))
                           <=> (who.role = RouteRole(route) /\ check = "ok")
                      /\ IF resp'.code = SuccessCode(route)
                            /\ (route = "update_status" => phone)
                         THEN procs'[p].pc \in TaskPcs /\ procs'[p].op = route
                         ELSE procs' = procs))
  /\ \A p \in Procs :
       /\ \A phone \in BOOLEAN :
            ~ENABLED (TaskBuyer(p, FALSE, Profile("b1", phone))
                        /\ resp'.code # "task_logged")
       /\ \A list \in ManufacturerLists :
            ~ENABLED (TaskList(p, FALSE, list)
                        /\ (resp'.code # "task_logged" \/ emits' # {}))
       /\ ~ENABLED (TaskNotify(p, FALSE) /\ resp'.code # "task_logged")

\* C17, per step of a task: the step answers no request, touches no other
\* handler or task, and a notification call that has settled, delivered or
\* failed, is not made again.
C17_TaskStaysDetached ==
  \A p \in Procs :
    (procs[p].pc \in TaskPcs /\ procs'[p] # procs[p]) =>
      /\ resp'.code \in {"none", "task_done", "task_logged"}
      /\ \A q \in Procs \ {p} : procs'[q] = procs[q]
      /\ procs[p].pc = "task_notify" =>
           \/ procs'[p] = IdleProc
           \/ procs'[p].pc = "task_notify" /\ procs'[p].list = Tail(procs[p].list)
      /\ store' = store

Wanted(c, before, r) ==
  {m \in DOMAIN messages :
     /\ messages[m].conversation_id = c
     /\ (before # NullTime => messages[m].created_at < before)
     /\ (r # NoReq => messages[m].requirement_id = r)}

\* C21: listMessagesWithAttachments returns, in ascending created_at order
\* and each once, min(limit, number wanted) messages of the conversation that
\* were created before `before` and match the filter, and none of the wanted
\* messages left out is more recent than a returned one.
C21_MostRecentAscending ==
  \A c \in 1..2, before \in 0..(MaxHistoryTime + 1), limit \in HistoryLimits,
     r \in RequirementIds \cup {NoReq} :
    LET list == listMessagesWithAttachments(c, before, limit, r)
        got == Range(list)
    IN /\ got \subseteq Wanted(c, before, r)
       /\ Len(list) = Cardinality(got)
       /\ Len(list) = IF Cardinality(Wanted(c, before, r)) < limit
                       THEN Cardinality(Wanted(c, before, r)) ELSE limit
       /\ \A m \in got, n \in Wanted(c, before, r) \ got :
            messages[n].created_at <= messages[m].created_at
       /\ \A i, j \in DOMAIN list :
            i < j => messages[list[i]].created_at <= messages[list[j]].created_at

\* C22: a listConversations call issues at most four store queries however
\* many conversations it returns (the conversation query, the unread query,
\* one buyer-profile and one manufacturer-profile query), and exactly one,
\* the conversation query, when it returns no conversation.
C22_QueriesBoundedByConstant ==
  resp.op = "list_convs" =>
    /\ resp.count <= 4
    /\ (Len(resp.list) = 0 => resp.count = 1)
    /\ (Len(resp.list) > 0 => resp.count >= 2)

\* C22 happens: a call has returned more than one conversation
C22_Witness ==
  resp.op = "list_convs" /\ Len(resp.list) = 2 /\ resp.count = 4

\* C23: once the send handler that stored a message has finished, the message
\* has a non-empty body or owns at least one attachment row.
C23_StoredMessageHasContent ==
  \A m \in DOMAIN messages :
    (\A p \in Procs : procs[p].msg # m) =>
      Len(messages[m].body) > 0 \/ m \in attachments

\* the step in which the verifyOTP call suspended in p compares its code
\* with the session's and finds it right, or wrong
AcceptsCode(p) ==
  /\ procs[p].pc = "otp_update" /\ procs'[p].pc # "otp_update"
  /\ otp_sessions[procs[p].msg].otp_code = procs[p].code
RejectsCode(p) ==
  /\ procs[p].pc = "otp_update" /\ procs'[p].pc # "otp_update"
  /\ otp_sessions[procs[p].msg].otp_code # procs[p].code

\* C25: an OTP session is verified successfully at most once: no verifyOTP
\* call accepts the code of a session that is already marked verified,
\* however the calls interleave.
C25_OneSuccessPerSession ==
  [][\A p \in Procs : AcceptsCode(p) => ~otp_sessions[procs[p].msg].is_verified]_vars

\* C26: every incorrect code compared against a session raises the
\* session's attempts counter by one, and none is compared once the counter
\* has reached 3, however the calls interleave.
C26_EveryWrongCodeCounted ==
  [][\A p \in Procs :
       RejectsCode(p) =>
         /\ otp_sessions[procs[p].msg].attempts < MAX_ATTEMPTS
         /\ otp_sessions'[procs[p].msg].attempts = otp_sessions[procs[p].msg].attempts + 1]_vars

\* a token POST /admin-login hands out, or a refresh of one
FromAdminLogin(tk) == tk.userId = ProfileId("admin", ADMIN_USERNAME)

\* C24: the admin guard lets a request through only when its bearer token
\* comes from POST /admin-login; no token handed out after send-otp and
\* verify-otp is let through.
C24_OnlyAdminLoginAdmitted ==
  \A tk \in issued :
    FromAdminLogin(tk) \/ ~ENABLED (AdminOrders(Jwt(tk)) /\ resp'.code = "200")

\* C28: the verified flag of an existing manufacturer profile goes from
\* false to true only in a step of the admin route PATCH
\* /manufacturers/:id/verified.
C28_OnlyAdminVerifies ==
  [][\A ph \in DOMAIN manufacturer_profiles :
       (~manufacturer_profiles[ph].is_verified /\ manufacturer_profiles'[ph].is_verified)
         => resp'.op = "patch_verified"]_vars

\* the tokens whose session POST /logout has deactivated
LoggedOut ==
  {tk \in issued :
     \E s \in user_sessions : s.token_hash = Sha256(tk) /\ ~s.is_active}

\* C29: a token that was logged out is answered 401 by GET /verify-token and
\* by POST /refresh-token, and no new token is derived from it.
C29_LoggedOutTokenRefused ==
  \A tk \in LoggedOut :
    /\ ~ENABLED (VerifyToken(Jwt(tk)) /\ resp'.code # "401")
    /\ ~ENABLED (RefreshToken(Jwt(tk)) /\ (resp'.code # "401" \/ issued' # issued))

\* C27: the daily_design_generation_count stored for a buyer never exceeds
\* the daily limit of 5, however the increment requests interleave.
C27_CountWithinLimit ==
  \A ph \in DOMAIN buyer_profiles :
    buyer_profiles[ph].daily_design_generation_count <= DAILY_LIMIT

\* the other half of C27: every increment request answered with success
\* raises the count of its day by one
C27_EverySuccessCounted ==
  [][\A p \in Procs :
       (procs[p].pc = "dg_write" /\ procs'[p].pc = "idle") =>
         buyer_profiles'[procs[p].phone].daily_design_generation_count =
           CountOn(buyer_profiles[procs[p].phone], procs[p].day) + 1]_vars

\* C30: the counts getBuyerRequirementStatistics returns partition the
\* buyer's requirements: accepted + pending_review + in_negotiation = total,
\* also when requirements are created or deleted while it runs.
C30_CountsPartitionTotal ==
  resp.op = "statistics" =>
    resp.stats.accepted + resp.stats.pending_review + resp.stats.in_negotiation
      = resp.stats.total
====
